---- MODULE Spec2Model ----
(***************************************************************************)
(* Model of the callback lifecycle of bela-rs (src/src/lib.rs).            *)
(*                                                                         *)
(* Bela::run stores the user constructor in a UserData value that lives in *)
(* run's stack frame, hands a pointer to it to the engine together with    *)
(* three extern "C" callbacks (setup_trampoline, render_trampoline,        *)
(* cleanup_trampoline) and then drives the engine: Bela_initAudio,         *)
(* Bela_startAudio, a polling loop on Bela_stopRequested, Bela_stopAudio   *)
(* and Bela_cleanupAudio.                                                  *)
(*                                                                         *)
(* Two specifications share the variables:                                 *)
(*   SpecCb  the three callbacks invoked in any order and number on the    *)
(*           UserData value (what the trampolines do by themselves);       *)
(*   Spec    Bela::run together with an engine that invokes the callbacks  *)
(*           as its callback contract says (setup inside Bela_initAudio,   *)
(*           render while the audio thread runs, cleanup inside            *)
(*           Bela_cleanupAudio), with every engine return code and every   *)
(*           user-code outcome drawn as an input.                          *)
(***************************************************************************)
EXTENDS Naturals, Integers, Sequences, FiniteSets

\* ------------------------------------------------------------------ bounds
\* Each callback is invoked at most MaxCalls times in SpecCb, and the engine
\* renders at most MaxCalls buffers in Spec.
MaxCalls == 3
\* Bela_stopRequested() is polled at most MaxPolls times with answer 0.
MaxPolls == 2

\* A constructor creates at most MaxTasks auxiliary tasks.
MaxTasks == 1
\* The tasks are scheduled successfully at most MaxSched times altogether.
MaxSched == 2
\* A render invocation makes at most MaxOps digital pin calls.
MaxOps == 2
\* ... and at most MaxEdgeOps of them when the arguments include those at
\* and past the limits.
MaxEdgeOps == 1

\* ------------------------------------------------------------------ inputs
\* What the user constructor does when it is called: it returns
\* Some(application), returns None, panics with an ordinary payload, or
\* panics with a payload whose own drop panics.
CtorOutcomes == {"Some", "None", "Panic", "PanicBomb"}
\* What any other user code does when it is called (the drop of the
\* application, the drop of the constructor with what it captures, the
\* callable of a task): it returns, or panics in one of the two ways.
CallOutcomes == {"Returns", "Panic", "PanicBomb"}
\* Status codes an engine call may return (0 is success).
RcSet == {-1, 0, 1}
\* What a panic leaving an extern "C" function leads to: the process is
\* aborted, or the unwinding continues into the engine's frames.
EscapeOutcomes == {"abort", "unwind"}
\* Frame and channel counts the engine reports for the digital buffer, and
\* the two ways the buffer is filled when the render invocation starts.
DigitalFrameCounts == {1, 3}
DigitalChannelCounts == {1, 16}
DigitalFills == {0, 1}
\* Channel arguments of the digital pin calls, and the two directions.
ChannelArgs == {0, 15}
\* Channel arguments up to the last one a shift accepts: 16 and 31 are above
\* the 16 channels a word has bits for.
EdgeChannelArgs == {0, 15, 16, 31}
DigitalDirection == {"Input", "Output"}

VARIABLES
    user_data,      \* variant of the UserData value in run's frame
    ctorCalls,      \* number of invocations of the user constructor
    ctorOutcome,    \* outcome of the constructor ("NotCalled" before)
    appRenders,     \* number of calls of BelaApplication::render
    appDrops,       \* number of drops of the application value
    setupCalls,     \* invocations of setup_trampoline
    renderCalls,    \* invocations of render_trampoline
    cleanupCalls,   \* invocations of cleanup_trampoline
    setupRets,      \* booleans returned by setup_trampoline, in order
    last,           \* record of the most recent callback invocation
    panicEscaped,   \* a panic has left an extern "C" callback
    halted,         \* the process was aborted
    pc,             \* position of the thread executing Bela::run
    result,         \* value returned by run ("Running" before it returns)
    engineCalls,    \* engine and OS calls made by run, in order
    initRc,         \* <<rc>> once Bela_initAudio has returned, else << >>
    startRc,        \* <<rc>> once Bela_startAudio has returned, else << >>
    sigHandlers,    \* signals whose handler is signal_handler
    stopRequests,   \* who has set the engine's stop flag so far
    stopObserved,   \* run has seen Bela_stopRequested() /= 0
    audioRunning,   \* the engine's audio thread is running
    polls,          \* polls of Bela_stopRequested() answered with 0
    rendering,      \* the audio thread is inside render_trampoline
    ctx,            \* tag of the Context user code holds ("none" outside)
    inCb,           \* callback whose user code is running ("none" outside)
    tasks,          \* one record per callable given to create_auxiliary_task
    api,            \* record of the most recent call on a Context
    auxlast,        \* record of the most recent run of a task trampoline
    digitalFrames,  \* context.digitalFrames of the render invocation
    digitalChannels, \* context.digitalChannels of the render invocation
    digital,        \* the words seen through digital() / digital_mut()
    dinit,          \* those words as the engine handed them over
    dlast,          \* record of the most recent digital pin call
    dprev,          \* record of the call before that
    dops,           \* number of digital pin calls in this invocation
    dtouched,       \* <<channel, field>> pairs written by the calls so far
    dshadow,        \* per word and channel, the level last written to it
    overflow_checks, \* the build panics on arithmetic overflow ("unset" before)
    vscript,        \* which of the engine's input scripts drives the runs
    vruns,          \* per execution: invocations done, application, outputs
    vlast,          \* record of the most recent buffer view call
    mbuf,           \* the caller's 3-byte buffer given to get_midi_message
    mcalls,         \* calls of get_midi_message
    mlast           \* record of the most recent get_midi_message call

cbVars == <<user_data, ctorCalls, ctorOutcome, appRenders, appDrops,
            setupCalls, renderCalls, cleanupCalls, setupRets, last,
            panicEscaped, halted>>
runVars == <<pc, result, engineCalls, initRc, startRc, sigHandlers,
             stopRequests, stopObserved, audioRunning, polls>>
\* The digital buffer of the render invocation in flight.
digVars == <<digitalFrames, digitalChannels, digital, dinit, dlast, dprev,
             dops, dtouched, dshadow, overflow_checks>>
\* The buffer views of the render invocations of two executions on the same
\* inputs, and the midi input.
viewVars == <<vscript, vruns, vlast>>
midiVars == <<mbuf, mcalls, mlast>>
bufVars == <<viewVars, midiVars>>
\* The state of the engine's audio thread.
audioVars == <<rendering, digVars, bufVars>>
\* The state seen through a Context: digital buffer and auxiliary tasks.
taskVars == <<ctx, inCb, tasks, api, auxlast>>
ioVars == <<taskVars>>
vars == <<user_data, ctorCalls, ctorOutcome, appRenders, appDrops,
          setupCalls, renderCalls, cleanupCalls, setupRets, last,
          panicEscaped, halted, pc, result, engineCalls, initRc, startRc,
          sigHandlers, stopRequests, stopObserved, audioRunning, polls,
          rendering, ioVars, digVars, bufVars>>

\* The three variants of UserData.  Once run has returned (pc = "done") the
\* variable keeps what the frame held when it was dropped.
Variants == {"Application", "Constructor", "None"}

\* ------------------------------------------------------- UserData methods
\* UserData::take: std::mem::replace(self, Self::None); old is the value
\* returned, new the value left behind.
take(ud) == [old |-> ud, new |-> "None"]

\* Dropping a value of this variant runs user code: the Drop of the
\* application, or of what the constructor closure captures.
drops_user_value(variant) == variant /= "None"

\* UserData::is_application
is_application(ud) == ud = "Application"

\* Faulty variant: setup_trampoline builds a Render-tagged Context.
setup_context_tag_render == "Render"

\* `Context::<SetupTag>::new(context)` in setup_trampoline.
setup_context_tag == "Setup"

\* `Context::<RenderTag>::new(context)` in render_trampoline.
render_context_tag == "Render"

\* The call of user code panicked.
Panics(outcome) == outcome \in {"Panic", "PanicBomb"}

\* The payload that catch_unwind returned is dropped where the result is
\* discarded (`Err(_) =>`, `let _ =`), after catch_unwind has returned: a
\* payload whose drop panics raises a second panic there.
PayloadDropPanics(outcome) == outcome = "PanicBomb"

\* Faulty variant: stores an application whatever the constructor did.
ctor_result_always_app(outcome) == "Application"

\* The match on catch_unwind(constructor(&mut context)):
\* Ok(Some(app)) -> Application(app), Ok(None) -> None, Err(_) -> None.
ctor_result(outcome) ==
    CASE outcome = "Some"  -> "Application"
      [] outcome = "None"  -> "None"
      [] outcome = "Panic" -> "None"
      [] outcome = "PanicBomb" -> "None"

\* Faulty variant: puts the constructor back when it panicked.
setup_trampoline_restore(ud, outcome, drop) ==
    LET taken == take(ud) IN
    IF taken.old = "Constructor"
    THEN LET new == IF Panics(outcome) THEN "Constructor"
                    ELSE ctor_result(outcome)
         IN [user_data |-> new, ret |-> is_application(new),
             ctor |-> 1, ctx |-> setup_context_tag, dropped |-> 0,
             escaped |-> PayloadDropPanics(outcome)]
    ELSE LET d == IF taken.old = "Application" THEN 1 ELSE 0
         IN [user_data |-> taken.new, ret |-> is_application(taken.new),
             ctor |-> 0, ctx |-> "none", dropped |-> d,
             escaped |-> (Panics(drop) /\ d = 1)]

\* setup_trampoline: the value is taken out of UserData; if it was the
\* constructor, the constructor is called once with a Setup-tagged Context
\* inside catch_unwind and its result stored; a taken value that was not the
\* constructor is dropped when the function returns, outside catch_unwind.
\* The arm `Err(_) => UserData::None` drops the payload of a constructor
\* panic, outside catch_unwind too: when that drop panics the function is
\* left before the assignment, with UserData as take left it.
\* ctor counts the constructor calls, dropped the application values
\* dropped; escaped tells whether a panic leaves the function (ret is then
\* not returned).
setup_trampoline(ud, outcome, drop) ==
    LET taken == take(ud) IN
    IF taken.old = "Constructor"
    THEN IF PayloadDropPanics(outcome)
         THEN [user_data |-> taken.new, ret |-> FALSE,
               ctor |-> 1, ctx |-> setup_context_tag, dropped |-> 0,
               escaped |-> TRUE]
         ELSE LET new == ctor_result(outcome)
              IN [user_data |-> new, ret |-> is_application(new),
                  ctor |-> 1, ctx |-> setup_context_tag, dropped |-> 0,
                  escaped |-> FALSE]
    ELSE LET d == IF taken.old = "Application" THEN 1 ELSE 0
         IN [user_data |-> taken.new, ret |-> is_application(taken.new),
             ctor |-> 0, ctx |-> "none", dropped |-> d,
             escaped |-> (Panics(drop) /\ d = 1)]

\* Faulty variant: takes the application out of UserData to render it.
render_trampoline_take(ud, renderPanics) ==
    IF ud = "Application"
    THEN [user_data |-> take(ud).new, renders |-> 1, ctx |-> render_context_tag,
          escaped |-> renderPanics]
    ELSE [user_data |-> ud, renders |-> 0, ctx |-> "none", escaped |-> FALSE]

\* Faulty variant: calls render without looking at the variant.
render_trampoline_always(ud, renderPanics) ==
    [user_data |-> ud, renders |-> 1, ctx |-> render_context_tag,
     escaped |-> renderPanics]

\* Faulty variant: render is called inside catch_unwind and a panic is
\* recorded by emptying UserData.
render_trampoline_catch(ud, renderPanics) ==
    IF ud = "Application"
    THEN [user_data |-> IF renderPanics THEN "None" ELSE ud, renders |-> 1,
          ctx |-> render_context_tag, escaped |-> FALSE]
    ELSE [user_data |-> ud, renders |-> 0, ctx |-> "none", escaped |-> FALSE]

\* render_trampoline: if UserData holds an application its render is called
\* once with a Render-tagged Context; UserData is only borrowed, and there is
\* no catch_unwind, so a panic of render leaves the function.
render_trampoline(ud, renderPanics) ==
    IF ud = "Application"
    THEN [user_data |-> ud, renders |-> 1, ctx |-> render_context_tag,
          escaped |-> renderPanics]
    ELSE [user_data |-> ud, renders |-> 0, ctx |-> "none", escaped |-> FALSE]

\* Faulty variant: drops the application in place and empties UserData only
\* afterwards, without catch_unwind: a panicking drop leaves the function
\* with the application still in UserData.
cleanup_trampoline_dropfirst(ud, drop) ==
    LET d == IF ud = "Application" THEN 1 ELSE 0
        p == Panics(drop) /\ drops_user_value(ud)
    IN [user_data |-> IF p THEN ud ELSE "None", dropped |-> d,
        panicked |-> p, escaped |-> p]

\* cleanup_trampoline: inside catch_unwind the value is taken (UserData is
\* None from then on) and the taken value dropped, an application or a
\* constructor that was never called; the result of catch_unwind is
\* discarded with `let _ =`, which drops the payload of a panic after
\* catch_unwind has returned: when that drop panics, the second panic leaves
\* the function.  drop is what dropping the taken value does; dropped
\* counts the application values dropped.
cleanup_trampoline(ud, drop) ==
    LET taken == take(ud)
        d == IF taken.old = "Application" THEN 1 ELSE 0
        p == Panics(drop) /\ drops_user_value(taken.old)
    IN [user_data |-> taken.new, dropped |-> d, panicked |-> p,
        escaped |-> (p /\ PayloadDropPanics(drop))]

\* --------------------------------------------------- callback invocations
NoCallback ==
    [cb |-> "none", before |-> "Constructor", after |-> "Constructor",
     outcome |-> "NotCalled", ret |-> FALSE, ctx |-> "none", renders |-> 0,
     dropped |-> 0, panicked |-> FALSE, escaped |-> FALSE]

\* One invocation of setup_trampoline by the engine that found ud in
\* UserData when it was entered.  outcome is what the constructor does if
\* called, drop what dropping an application does, esc what an escaping
\* panic leads to.
InvokeSetupFrom(ud, outcome, drop, esc) ==
    LET r == setup_trampoline(ud, outcome, drop)
    IN /\ user_data' = r.user_data
       /\ ctorCalls' = ctorCalls + r.ctor
       /\ ctorOutcome' = IF r.ctor = 1 THEN outcome ELSE ctorOutcome
       /\ appDrops' = appDrops + r.dropped
       /\ setupCalls' = setupCalls + 1
       /\ setupRets' = IF r.escaped THEN setupRets
                       ELSE Append(setupRets, r.ret)
       /\ panicEscaped' = (panicEscaped \/ r.escaped)
       /\ halted' = (r.escaped /\ esc = "abort")
       /\ last' = [cb |-> "setup", before |-> ud, after |-> r.user_data,
                   outcome |-> IF r.ctor = 1 THEN outcome ELSE "NotCalled",
                   ret |-> r.ret, ctx |-> r.ctx, renders |-> 0,
                   dropped |-> r.dropped,
                   panicked |-> ((r.ctor = 1 /\ Panics(outcome))
                                    \/ r.escaped),
                   escaped |-> r.escaped]
       /\ UNCHANGED <<appRenders, renderCalls, cleanupCalls>>

\* One whole invocation of setup_trampoline on what UserData holds.
InvokeSetup(outcome, drop, esc) ==
    InvokeSetupFrom(user_data, outcome, drop, esc)

\* One invocation of render_trampoline.  renderPanics is whether the
\* application's render panics.
InvokeRender(renderPanics, esc) ==
    LET r == render_trampoline(user_data, renderPanics)
    IN /\ user_data' = r.user_data
       /\ appRenders' = appRenders + r.renders
       /\ renderCalls' = renderCalls + 1
       /\ panicEscaped' = (panicEscaped \/ r.escaped)
       /\ halted' = (r.escaped /\ esc = "abort")
       /\ last' = [cb |-> "render", before |-> user_data,
                   after |-> r.user_data, outcome |-> "NotCalled",
                   ret |-> FALSE, ctx |-> r.ctx, renders |-> r.renders,
                   dropped |-> 0,
                   panicked |-> (renderPanics /\ r.renders = 1),
                   escaped |-> r.escaped]
       /\ UNCHANGED <<ctorCalls, ctorOutcome, appDrops, setupCalls,
                      cleanupCalls, setupRets>>

\* One invocation of cleanup_trampoline.  drop is what dropping the
\* application does.
InvokeCleanup(drop, esc) ==
    LET r == cleanup_trampoline(user_data, drop)
    IN /\ user_data' = r.user_data
       /\ appDrops' = appDrops + r.dropped
       /\ cleanupCalls' = cleanupCalls + 1
       /\ panicEscaped' = (panicEscaped \/ r.escaped)
       /\ halted' = (r.escaped /\ esc = "abort")
       /\ last' = [cb |-> "cleanup", before |-> user_data,
                   after |-> r.user_data, outcome |-> "NotCalled",
                   ret |-> FALSE, ctx |-> "none", renders |-> 0,
                   dropped |-> r.dropped, panicked |-> r.panicked,
                   escaped |-> r.escaped]
       /\ UNCHANGED <<ctorCalls, ctorOutcome, appRenders, setupCalls,
                      renderCalls, setupRets>>

\* ------------------------------------------------- operations of Context
\* Methods of `impl<StateTag> Context<StateTag>`: introspection, callable
\* through a Context of either tag.
CommonApi ==
    {"audio_frames", "audio_in_channels", "audio_out_channels",
     "audio_sample_rate", "analog_frames", "analog_in_channels",
     "analog_out_channels", "analog_sample_rate", "digital_frames",
     "digital_channels", "digital_sample_rate", "audio_frames_elapsed",
     "multiplexer_channels", "multiplexer_starting_channel",
     "audio_expander_enabled", "flags"}

\* Methods of `impl SetupContext`: create_auxiliary_task and (with the midi
\* feature) new_midi.
SetupApi == {"create_auxiliary_task", "new_midi"}

\* Methods of `impl RenderContext`: buffer views, digital pins, scheduling
\* and (with the midi feature) get_midi_message.
RenderApi ==
    {"audio_out", "audio_in", "digital_mut", "digital", "analog_out",
     "analog_in", "multiplexer_analog_in", "digital_read", "digital_write",
     "digital_write_once", "pin_mode", "pin_mode_once",
     "schedule_auxiliary_task", "get_midi_message"}

\* The groups of methods: reading the settings, shared views of the input
\* buffers, mutable views of the output buffers, the digital pin codec; the
\* task and midi methods are groups of their own.
MutableBufferApi == {"audio_out", "digital_mut", "analog_out"}
SharedBufferApi == {"audio_in", "digital", "analog_in", "multiplexer_analog_in"}
DigitalPinApi ==
    {"digital_read", "digital_write", "digital_write_once", "pin_mode",
     "pin_mode_once"}
ApiKind(op) ==
    IF op \in CommonApi THEN "introspection"
    ELSE IF op \in MutableBufferApi THEN "buffer_mut"
    ELSE IF op \in SharedBufferApi THEN "buffer"
    ELSE IF op \in DigitalPinApi THEN "digital_pin"
    ELSE op

\* Faulty variant: create_auxiliary_task is a method of every Context.
Capabilities_create_anywhere(tag) ==
    IF tag = "Setup" THEN CommonApi \cup SetupApi
    ELSE IF tag = "Render" THEN CommonApi \cup RenderApi \cup SetupApi
    ELSE {}

\* The methods that can be called on a Context with the given tag; without a
\* Context ("none") nothing can be called.
Capabilities(tag) ==
    IF tag = "Setup" THEN CommonApi \cup SetupApi
    ELSE IF tag = "Render" THEN CommonApi \cup RenderApi
    ELSE {}

\* Faulty variant: the null check is inverted.
create_auxiliary_task_inverted(null) ==
    [ret |-> IF null THEN "Ok" ELSE "ErrCreateTask", handle |-> null,
     leaked |-> TRUE]

\* Faulty variant: the callable is taken back and dropped when the engine
\* returns a null handle.
create_auxiliary_task_reclaim(null) ==
    [ret |-> IF null THEN "ErrCreateTask" ELSE "Ok", handle |-> ~null,
     leaked |-> ~null]

\* SetupContext::create_auxiliary_task, given whether
\* Bela_createAuxiliaryTask returned a null handle: the callable is leaked
\* with Box::leak before the engine is called; Err(CreateTask) if the handle
\* is null, Ok(AuxiliaryTask(handle)) otherwise.
create_auxiliary_task(null) ==
    [ret |-> IF null THEN "ErrCreateTask" ELSE "Ok", handle |-> ~null,
     leaked |-> TRUE]

\* SetupContext::new_midi, given whether Midi_new returned a null pointer:
\* Err(Midi) if it is null, Ok(Midi(pointer)) otherwise.
new_midi(null) == IF null THEN "ErrMidi" ELSE "Ok"

\* Faulty variant: only positive status codes count as failures.
schedule_auxiliary_task_positive(rc) ==
    IF rc > 0 THEN "ErrScheduleTask" ELSE "Ok"

\* RenderContext::schedule_auxiliary_task, given the status code of
\* Bela_scheduleAuxiliaryTask: `0 => Ok(()), _ => Err(ScheduleTask)`.
schedule_auxiliary_task(rc) ==
    IF rc = 0 THEN "Ok" ELSE "ErrScheduleTask"

\* Faulty variant: the callable is called without catch_unwind.
auxiliary_task_trampoline_nocatch(outcome) ==
    [calls |-> 1, panicked |-> Panics(outcome),
     escaped |-> Panics(outcome)]

\* auxiliary_task_trampoline: the callable behind aux_ptr is called once
\* inside catch_unwind and the result discarded with `let _ =`, which
\* drops the payload of a panic after catch_unwind has returned: when that
\* drop panics, the second panic leaves the trampoline.  outcome is what
\* the callable does.
auxiliary_task_trampoline(outcome) ==
    [calls |-> 1, panicked |-> Panics(outcome),
     escaped |-> PayloadDropPanics(outcome)]

\* The record kept for a callable given to create_auxiliary_task in callback
\* cb, r being the result of the call.  registered: the engine holds the
\* trampoline and the pointer to the callable; held: user code holds the
\* AuxiliaryTask handle; schedIn: the callbacks it was queued from; pending:
\* queued runs not yet started; runs: calls of the callable.
NewTask(r, cb) ==
    [leaked |-> r.leaked, registered |-> r.handle, held |-> r.handle,
     createdIn |-> cb, schedIn |-> {}, pending |-> 0, runs |-> 0]

\* The successful schedule calls made so far on the tasks ts: each of them
\* is a queued run or a run that has started.
RECURSIVE Scheduled(_)
Scheduled(ts) ==
    IF ts = << >> THEN 0
    ELSE ts[1].pending + ts[1].runs + Scheduled(Tail(ts))

\* ------------------------------------------------------ the buffer views
\* The two executions of the same application that are compared.
Executions == {"A", "B"}
\* The input scripts of the engine: what its descriptor (BelaContext) holds
\* in the k-th render invocation.  Script 0 keeps 2 audio channels of 4
\* frames and no multiplexer; script 1 changes the sizes from one invocation
\* to the next and has a multiplexer buffer in every second one.
ViewScripts == {0, 1}
Desc(s, k) ==
    LET small == (s = 1 /\ k % 2 = 1)
        frames == IF small THEN 2 ELSE 4
        chans == IF small THEN 1 ELSE 2
    IN [audioFrames |-> frames,
        audioInChannels |-> chans,
        audioOutChannels |-> chans,
        analogFrames |-> frames \div 2,
        analogInChannels |-> 8,
        analogOutChannels |-> IF small THEN 4 ELSE 8,
        digitalFrames |-> frames,
        digitalChannels |-> 16,
        multiplexerChannels |-> IF s = 1 THEN 8 ELSE 0,
        multiplexerAnalogInNull |-> ~small,
        audioOut |-> [i \in 1..(frames * chans) |-> (i + k + s) % 3]]

\* Faulty variant: the descriptor of the first invocation is kept.
raw_cached(s, k) == Desc(s, 0)

\* Context::raw: the engine's descriptor behind the pointer the Context was
\* built from, that is the one of the invocation in flight.
raw(s, k) == Desc(s, k)

\* Faulty variant: the length is the frame count.
view_len_frames_only(n_frames, n_channels) == n_frames

\* `n_frames * n_channels`, the length given to from_raw_parts(_mut).
view_len(n_frames, n_channels) == n_frames * n_channels

ViewNames ==
    {"audio_out", "audio_in", "digital_mut", "digital", "analog_out",
     "analog_in", "multiplexer_analog_in"}

\* The view methods of RenderContext on descriptor c: whether a slice is
\* returned (all but multiplexer_analog_in return one always) and its length.
buffer_view(name, c) ==
    CASE name = "audio_out" ->
            [some |-> TRUE,
             len |-> view_len(c.audioFrames, c.audioOutChannels)]
      [] name = "audio_in" ->
            [some |-> TRUE,
             len |-> view_len(c.audioFrames, c.audioInChannels)]
      [] name \in {"digital_mut", "digital"} ->
            [some |-> TRUE,
             len |-> view_len(c.digitalFrames, c.digitalChannels)]
      [] name = "analog_out" ->
            [some |-> TRUE,
             len |-> view_len(c.analogFrames, c.analogOutChannels)]
      [] name = "analog_in" ->
            [some |-> TRUE,
             len |-> view_len(c.analogFrames, c.analogInChannels)]
      [] name = "multiplexer_analog_in" ->
            IF c.multiplexerAnalogInNull
            THEN [some |-> FALSE, len |-> 0]
            ELSE [some |-> TRUE,
                  len |-> view_len(c.analogFrames, c.multiplexerChannels)]

\* The application of the comparison: its render writes a linear ramp into
\* the audio output view, continuing where the last invocation stopped.
\* app is its state, view the audio output as the engine handed it over, len
\* the length of the view.
ramp_render(app, view, len) ==
    [app |-> app + len,
     out |-> [i \in 1..Len(view) |->
                 IF i <= len THEN app + i - 1 ELSE view[i]]]

\* One invocation of render_trampoline on an application: a Context is
\* built from the engine's pointer and handed to the application's render;
\* nothing else is read or kept.
render_invocation(app, c) ==
    ramp_render(app, c.audioOut, buffer_view("audio_out", c).len)

NoViewCall == [run |-> "none", name |-> "none", k |-> 0, some |-> FALSE,
               len |-> 0]

\* ------------------------------------------------- the digital pin codec
\* A u32 word is the set of the positions of its 1 bits.
WordBits == 0..31
\* The two builds: with overflow checks (the default of a debug build) a
\* shift by the width of the word or more panics, without them (the default
\* of a release build) the shift count is taken modulo the width.
OverflowChecks == {"on", "off"}
ShiftPanics(n) == n >= 32 /\ overflow_checks = "on"
\* `1 << n` where it does not panic.
Shl1(n) == {n % 32}
\* `w | m` and `w & !m`.
BitOr(w, m) == w \cup m
BitAndNot(w, m) == w \ m
\* `(w >> n) & 1 != 0` where the shift does not panic.
BitTest(w, n) == (n % 32) \in w

\* Position of the value bit of a channel: `channel + 16`.
value_bit(channel) == channel + 16
\* Position of the direction bit of a channel: `channel`.
direction_bit(channel) == channel

\* Length of the slice built by digital() and digital_mut():
\* `n_frames * n_channels`.
digital_len(n_frames, n_channels) == n_frames * n_channels

\* `digital[frame]`: panics when frame is not below the length of the slice.
IndexPanics(d, frame) == frame >= Len(d)
\* Faulty variant: the range must start inside the slice.
RangePanics_inclusive(d, frame) == frame >= Len(d)

\* `digital[frame..]`: panics when frame is above the length of the slice.
RangePanics(d, frame) == frame > Len(d)

\* The result of a call: whether it panicked, the words afterwards, the value
\* returned (FALSE for the calls that return nothing).
DigitalResult(p, d, r) == [panicked |-> p, digital |-> d, ret |-> r]

\* Faulty variant: reads the direction bit.
digital_read_direction(d, frame, channel) ==
    IF IndexPanics(d, frame) THEN DigitalResult(TRUE, d, FALSE)
    ELSE DigitalResult(FALSE, d, BitTest(d[frame + 1], direction_bit(channel)))

\* digital_read: `(digital[frame] >> (channel + 16)) & 1 != 0`.  Here and in
\* the calls below a shift that panics does so before any word is written,
\* and only if there is a word to work on.
digital_read(d, frame, channel) ==
    IF IndexPanics(d, frame) \/ ShiftPanics(value_bit(channel))
    THEN DigitalResult(TRUE, d, FALSE)
    ELSE DigitalResult(FALSE, d, BitTest(d[frame + 1], value_bit(channel)))

\* Faulty variant: writes the word at frame only.
digital_write_first_only(d, frame, channel, value) ==
    IF RangePanics(d, frame) THEN DigitalResult(TRUE, d, FALSE)
    ELSE DigitalResult(FALSE,
             [i \in 1..Len(d) |->
                 IF i - 1 /= frame THEN d[i]
                 ELSE IF value THEN BitOr(d[i], Shl1(value_bit(channel)))
                 ELSE BitAndNot(d[i], Shl1(value_bit(channel)))],
             FALSE)

\* digital_write: for every word of `digital[frame..]`, `|= 1 << (channel +
\* 16)` when value is true and `&= !(1 << (channel + 16))` otherwise.
digital_write(d, frame, channel, value) ==
    IF RangePanics(d, frame)
          \/ (frame < Len(d) /\ ShiftPanics(value_bit(channel)))
    THEN DigitalResult(TRUE, d, FALSE)
    ELSE DigitalResult(FALSE,
             [i \in 1..Len(d) |->
                 IF i - 1 < frame THEN d[i]
                 ELSE IF value THEN BitOr(d[i], Shl1(value_bit(channel)))
                 ELSE BitAndNot(d[i], Shl1(value_bit(channel)))],
             FALSE)

\* Faulty variant: writes every word from frame on.
digital_write_once_persisting(d, frame, channel, value) ==
    IF IndexPanics(d, frame) THEN DigitalResult(TRUE, d, FALSE)
    ELSE DigitalResult(FALSE,
             [i \in 1..Len(d) |->
                 IF i - 1 < frame THEN d[i]
                 ELSE IF value THEN BitOr(d[i], Shl1(value_bit(channel)))
                 ELSE BitAndNot(d[i], Shl1(value_bit(channel)))],
             FALSE)

\* digital_write_once: the same on `digital[frame]` alone.
digital_write_once(d, frame, channel, value) ==
    IF IndexPanics(d, frame) \/ ShiftPanics(value_bit(channel))
    THEN DigitalResult(TRUE, d, FALSE)
    ELSE DigitalResult(FALSE,
             [d EXCEPT ![frame + 1] =
                 IF value THEN BitOr(@, Shl1(value_bit(channel)))
                 ELSE BitAndNot(@, Shl1(value_bit(channel)))],
             FALSE)

\* Faulty variant: clears the whole direction field for Output.
pin_mode_clears_field(d, frame, channel, mode) ==
    IF RangePanics(d, frame) THEN DigitalResult(TRUE, d, FALSE)
    ELSE DigitalResult(FALSE,
             [i \in 1..Len(d) |->
                 IF i - 1 < frame THEN d[i]
                 ELSE IF mode = "Input"
                      THEN BitOr(d[i], Shl1(direction_bit(channel)))
                      ELSE BitAndNot(d[i], 0..15)],
             FALSE)

\* Faulty variant: the two directions are exchanged.
pin_mode_inverted(d, frame, channel, mode) ==
    IF RangePanics(d, frame) THEN DigitalResult(TRUE, d, FALSE)
    ELSE DigitalResult(FALSE,
             [i \in 1..Len(d) |->
                 IF i - 1 < frame THEN d[i]
                 ELSE IF mode = "Output"
                      THEN BitOr(d[i], Shl1(direction_bit(channel)))
                      ELSE BitAndNot(d[i], Shl1(direction_bit(channel)))],
             FALSE)

\* pin_mode: for every word of `digital[frame..]`, Input does `|= 1 <<
\* channel` and Output does `&= !(1 << channel)`.
pin_mode(d, frame, channel, mode) ==
    IF RangePanics(d, frame)
          \/ (frame < Len(d) /\ ShiftPanics(direction_bit(channel)))
    THEN DigitalResult(TRUE, d, FALSE)
    ELSE DigitalResult(FALSE,
             [i \in 1..Len(d) |->
                 IF i - 1 < frame THEN d[i]
                 ELSE IF mode = "Input"
                      THEN BitOr(d[i], Shl1(direction_bit(channel)))
                      ELSE BitAndNot(d[i], Shl1(direction_bit(channel)))],
             FALSE)

\* pin_mode_once: the same on `digital[frame]` alone.
pin_mode_once(d, frame, channel, mode) ==
    IF IndexPanics(d, frame) \/ ShiftPanics(direction_bit(channel))
    THEN DigitalResult(TRUE, d, FALSE)
    ELSE DigitalResult(FALSE,
             [d EXCEPT ![frame + 1] =
                 IF mode = "Input"
                 THEN BitOr(@, Shl1(direction_bit(channel)))
                 ELSE BitAndNot(@, Shl1(direction_bit(channel)))],
             FALSE)

\* -------------------------------------------------------------- midi
\* What Midi_availableMessages can return (a C int): no message, or some.
MidiAvailable == {-1, 0, 1, 2}
\* What Midi_getMessage can return (a C int).  The engine documents the
\* number of bytes of the message, 1..3; the type allows any int.
MidiReturns == {-1, 0, 1, 2, 3, 4}
\* The messages the engine writes to the caller's buffer: note on, program
\* change, timing clock.
MidiMessages == {<<144, 60, 100>>, <<192, 5>>, <<248>>}

\* `n as usize` of a C int on the 32-bit target, as two 16-bit halves: a
\* negative n becomes 2^32 + n.
as_usize(n) ==
    IF n >= 0
    THEN [hi |-> n \div 65536, lo |-> n % 65536]
    ELSE [hi |-> 65535 - ((-n - 1) \div 65536),
          lo |-> 65535 - ((-n - 1) % 65536)]

\* `&buffer[0..len]` panics when len is greater than the buffer's length.
SlicePanics(buf, len) == len.hi > 0 \/ len.lo > Len(buf)

\* The engine's Midi_getMessage writes the bytes of msg to the buffer.
Midi_getMessage(buf, msg) ==
    [i \in 1..Len(buf) |-> IF i <= Len(msg) THEN msg[i] ELSE buf[i]]

\* RenderContext::get_midi_message, given what Midi_availableMessages
\* returns, and what Midi_getMessage writes and returns if it is called:
\* None without calling Midi_getMessage if avail <= 0, else
\* Some(&buffer[0..len]) with len the value returned, as usize.
get_midi_message(avail, ret, msg, buf) ==
    IF avail <= 0
    THEN [called |-> FALSE, buffer |-> buf, some |-> FALSE,
          panicked |-> FALSE, slice |-> << >>]
    ELSE LET written == Midi_getMessage(buf, msg)
             len == as_usize(ret)
         IN IF SlicePanics(written, len)
            THEN [called |-> TRUE, buffer |-> written, some |-> FALSE,
                  panicked |-> TRUE, slice |-> << >>]
            ELSE [called |-> TRUE, buffer |-> written, some |-> TRUE,
                  panicked |-> FALSE, slice |-> SubSeq(written, 1, len.lo)]

\* No get_midi_message call yet.
NoMidiCall ==
    [avail |-> 0, called |-> FALSE, ret |-> 0, some |-> FALSE,
     panicked |-> FALSE, slice |-> << >>]

\* No digital pin call yet.
NoDigitalCall ==
    [op |-> "none", frame |-> 0, channel |-> 0, value |-> FALSE,
     mode |-> "none", panicked |-> FALSE, ret |-> FALSE, before |-> << >>]

\* The handles are dropped with the value that owns them (the application, or
\* the constructor's locals); the engine keeps its registrations.
DropHandles(ts) == [t \in 1..Len(ts) |-> [ts[t] EXCEPT !.held = FALSE]]

\* No call on a Context yet / no task trampoline run yet.
NoApiCall == [kind |-> "none", ctx |-> "none", cb |-> "none", task |-> 0,
              ret |-> "none", null |-> FALSE, rc |-> 0]
NoAuxRun == [task |-> 0, calls |-> 0, panicked |-> FALSE, escaped |-> FALSE]

\* ---------------------------------------------------------- initial state
\* run after `let mut user_data = UserData::Constructor(constructor)` and
\* the three assignments of the callbacks to the settings.
Init ==
    /\ user_data = "Constructor"
    /\ ctorCalls = 0
    /\ ctorOutcome = "NotCalled"
    /\ appRenders = 0
    /\ appDrops = 0
    /\ setupCalls = 0
    /\ renderCalls = 0
    /\ cleanupCalls = 0
    /\ setupRets = << >>
    /\ last = NoCallback
    /\ panicEscaped = FALSE
    /\ halted = FALSE
    /\ pc = "signal_handler"
    /\ result = "Running"
    /\ engineCalls = << >>
    /\ initRc = << >>
    /\ startRc = << >>
    /\ sigHandlers = {}
    /\ stopRequests = {}
    /\ stopObserved = FALSE
    /\ audioRunning = FALSE
    /\ polls = 0
    /\ rendering = FALSE
    /\ ctx = "none"
    /\ inCb = "none"
    /\ tasks = << >>
    /\ api = NoApiCall
    /\ auxlast = NoAuxRun
    /\ digitalFrames = 0
    /\ digitalChannels = 0
    /\ digital = << >>
    /\ dinit = << >>
    /\ dlast = NoDigitalCall
    /\ dprev = NoDigitalCall
    /\ dops = 0
    /\ dtouched = {}
    /\ dshadow = << >>
    /\ overflow_checks = "unset"
    /\ vscript = -1
    /\ vruns = [r \in Executions |-> [k |-> 0, app |-> 0, out |-> << >>]]
    /\ vlast = NoViewCall
    /\ mbuf = <<0, 0, 0>>
    /\ mcalls = 0
    /\ mlast = NoMidiCall

\* ------------------------------------ SpecCb: callbacks in any order
CbSetup ==
    /\ ~halted
    /\ setupCalls < MaxCalls
    /\ \E outcome \in CtorOutcomes, drop \in CallOutcomes,
          esc \in EscapeOutcomes :
           InvokeSetup(outcome, drop, esc)
    /\ UNCHANGED runVars
    /\ UNCHANGED <<audioVars, ioVars>>

CbRender ==
    /\ ~halted
    /\ renderCalls < MaxCalls
    /\ \E renderPanics \in BOOLEAN, esc \in EscapeOutcomes :
           InvokeRender(renderPanics, esc)
    /\ UNCHANGED runVars
    /\ UNCHANGED <<audioVars, ioVars>>

CbCleanup ==
    /\ ~halted
    /\ cleanupCalls < MaxCalls
    /\ \E drop \in CallOutcomes, esc \in EscapeOutcomes :
           InvokeCleanup(drop, esc)
    /\ UNCHANGED runVars
    /\ UNCHANGED <<audioVars, ioVars>>

NextCb == CbSetup \/ CbRender \/ CbCleanup

SpecCb == Init /\ [][NextCb]_vars

\* ------------- SpecTask: user code calling a Context inside the callbacks
\* setup_trampoline has taken the constructor, which leaves UserData None,
\* and calls it with the Context it built; the constructor is running.
TaskSetupBegin ==
    /\ ~halted
    /\ ctx = "none"
    /\ setupCalls < MaxCalls
    /\ LET r == setup_trampoline(user_data, "Some", "Returns")
       IN /\ r.ctor = 1
          /\ ctx' = r.ctx
    /\ user_data' = take(user_data).new
    /\ inCb' = "setup"
    /\ UNCHANGED <<tasks, api, auxlast>>
    /\ UNCHANGED <<ctorCalls, ctorOutcome, appRenders, appDrops, setupCalls,
                   renderCalls, cleanupCalls, setupRets, last, panicEscaped,
                   halted>>
    /\ UNCHANGED <<runVars, audioVars>>

\* User code calls create_auxiliary_task on the Context it holds; the
\* engine's Bela_createAuxiliaryTask returns a null handle or a handle.
CreateAuxiliaryTask ==
    /\ ~halted
    /\ "create_auxiliary_task" \in Capabilities(ctx)
    /\ Len(tasks) < MaxTasks
    /\ \E null \in BOOLEAN :
          LET r == create_auxiliary_task(null)
          IN /\ tasks' = Append(tasks, NewTask(r, inCb))
             /\ api' = [kind |-> ApiKind("create_auxiliary_task"), ctx |-> ctx,
                        cb |-> inCb, task |-> Len(tasks) + 1, ret |-> r.ret,
                        null |-> null, rc |-> 0]
    /\ UNCHANGED <<ctx, inCb, auxlast>>
    /\ UNCHANGED <<cbVars, runVars, audioVars>>

\* User code calls schedule_auxiliary_task with a handle it holds; the
\* engine's Bela_scheduleAuxiliaryTask returns a status code and has queued
\* the task when that code is 0.
ScheduleAuxiliaryTask ==
    /\ ~halted
    /\ "schedule_auxiliary_task" \in Capabilities(ctx)
    /\ \E t \in 1..Len(tasks), rc \in RcSet :
          /\ tasks[t].held
          /\ (rc = 0) => (Scheduled(tasks) < MaxSched)
          /\ tasks' = IF rc = 0
                      THEN [tasks EXCEPT
                               ![t].pending = @ + 1,
                               ![t].schedIn = @ \cup {inCb}]
                      ELSE tasks
          /\ api' = [kind |-> ApiKind("schedule_auxiliary_task"), ctx |-> ctx,
                     cb |-> inCb, task |-> t,
                     ret |-> schedule_auxiliary_task(rc),
                     null |-> FALSE, rc |-> rc]
    /\ UNCHANGED <<ctx, inCb, auxlast>>
    /\ UNCHANGED <<cbVars, runVars, audioVars>>

\* User code calls new_midi on the Context it holds; the engine's Midi_new
\* returns a null pointer or a midi object.
NewMidi ==
    /\ ~halted
    /\ "new_midi" \in Capabilities(ctx)
    /\ \E null \in BOOLEAN :
          api' = [kind |-> ApiKind("new_midi"), ctx |-> ctx, cb |-> inCb,
                  task |-> 0, ret |-> new_midi(null), null |-> null,
                  rc |-> 0]
    /\ UNCHANGED <<ctx, inCb, tasks, auxlast>>
    /\ UNCHANGED <<cbVars, runVars, audioVars>>

\* User code calls any other method of the Context it holds (introspection,
\* buffer views, digital pins).
ContextCall ==
    /\ ~halted
    /\ \E kind \in {ApiKind(op) :
                          op \in Capabilities(ctx) \
                                    {"create_auxiliary_task",
                                     "schedule_auxiliary_task", "new_midi"}} :
          api' = [kind |-> kind, ctx |-> ctx, cb |-> inCb, task |-> 0,
                  ret |-> "Ok", null |-> FALSE, rc |-> 0]
    /\ UNCHANGED <<ctx, inCb, tasks, auxlast>>
    /\ UNCHANGED <<cbVars, runVars, audioVars>>

\* The constructor, which setup_trampoline took when it was entered,
\* returns (or panics) and setup_trampoline stores the result and returns.
\* The handles live in the application: without one they are dropped.
TaskSetupEnd ==
    /\ ~halted
    /\ inCb = "setup"
    /\ \E outcome \in CtorOutcomes, esc \in EscapeOutcomes :
          /\ InvokeSetupFrom("Constructor", outcome, "Returns", esc)
          /\ tasks' = IF outcome = "Some" THEN tasks
                      ELSE DropHandles(tasks)
    /\ ctx' = "none"
    /\ inCb' = "none"
    /\ api' = NoApiCall
    /\ UNCHANGED auxlast
    /\ UNCHANGED <<runVars, audioVars>>

\* render_trampoline has found an application and calls its render with the
\* Context it built; render is running.
TaskRenderBegin ==
    /\ ~halted
    /\ ctx = "none"
    /\ renderCalls < MaxCalls
    /\ LET r == render_trampoline(user_data, FALSE)
       IN /\ r.renders = 1
          /\ ctx' = r.ctx
    /\ inCb' = "render"
    /\ UNCHANGED <<tasks, api, auxlast>>
    /\ UNCHANGED <<cbVars, runVars, audioVars>>

\* render returns (or panics) and render_trampoline is left.
TaskRenderEnd ==
    /\ ~halted
    /\ inCb = "render"
    /\ \E renderPanics \in BOOLEAN, esc \in EscapeOutcomes :
          InvokeRender(renderPanics, esc)
    /\ ctx' = "none"
    /\ inCb' = "none"
    /\ api' = NoApiCall
    /\ UNCHANGED <<tasks, auxlast>>
    /\ UNCHANGED <<runVars, audioVars>>

\* cleanup_trampoline drops the application and with it the handles; the
\* engine keeps the tasks.
TaskCleanup ==
    /\ ~halted
    /\ ctx = "none"
    /\ cleanupCalls < MaxCalls
    /\ \E drop \in CallOutcomes, esc \in EscapeOutcomes :
          InvokeCleanup(drop, esc)
    /\ tasks' = DropHandles(tasks)
    /\ UNCHANGED <<ctx, inCb, api, auxlast>>
    /\ UNCHANGED <<runVars, audioVars>>

\* The engine's thread of a queued task invokes auxiliary_task_trampoline
\* with the pointer to the leaked callable.
AuxiliaryTaskRun ==
    /\ ~halted
    /\ \E t \in 1..Len(tasks), outcome \in CallOutcomes,
          esc \in EscapeOutcomes :
          LET r == auxiliary_task_trampoline(outcome)
          IN /\ tasks[t].registered
             /\ tasks[t].pending > 0
             /\ tasks' = [tasks EXCEPT
                             ![t].pending = @ - 1,
                             ![t].runs = @ + r.calls]
             /\ auxlast' = [task |-> t, calls |-> r.calls,
                            panicked |-> r.panicked, escaped |-> r.escaped]
             /\ panicEscaped' = (panicEscaped \/ r.escaped)
             /\ halted' = (r.escaped /\ esc = "abort")
    /\ UNCHANGED <<ctx, inCb, api>>
    /\ UNCHANGED <<user_data, ctorCalls, ctorOutcome, appRenders, appDrops,
                   setupCalls, renderCalls, cleanupCalls, setupRets, last>>
    /\ UNCHANGED <<runVars, audioVars>>

NextTask ==
    \/ TaskSetupBegin
    \/ CreateAuxiliaryTask
    \/ ScheduleAuxiliaryTask
    \/ NewMidi
    \/ ContextCall
    \/ TaskSetupEnd
    \/ TaskRenderBegin
    \/ TaskRenderEnd
    \/ TaskCleanup
    \/ AuxiliaryTaskRun

SpecTask == Init /\ [][NextTask]_vars

\* ------------------- SpecDigital: digital pin calls of one render invocation
\* The word at index i of the buffer as the engine hands it over, for the
\* two fills: every bit of the channels used is 1 in some word and 0 in
\* another, and bits of other channels are present.
Fill(k, i) == IF (i + k) % 2 = 0 THEN {0, 1, 31} ELSE {15, 16, 17}

\* Frame arguments of the calls: every frame of the buffer and the one past
\* its last.
FrameArgs == 0..digitalFrames

Level(value) == IF value THEN "high" ELSE "low"

\* The engine invokes render with a context that reports nf digital frames
\* and nc digital channels; digital() and digital_mut() give the words from
\* context.digital on, digital_len(nf, nc) of them.  The program was built
\* with or without overflow checks.
DigitalBegin ==
    /\ digitalFrames = 0
    /\ \E nf \in DigitalFrameCounts, nc \in DigitalChannelCounts,
          k \in DigitalFills, checks \in OverflowChecks :
          LET words == [i \in 1..digital_len(nf, nc) |-> Fill(k, i)]
          IN /\ digitalFrames' = nf
             /\ digitalChannels' = nc
             /\ digital' = words
             /\ dinit' = words
             /\ dshadow' = [i \in 1..digital_len(nf, nc) |->
                               [c \in EdgeChannelArgs |-> "unknown"]]
             /\ overflow_checks' = checks
    /\ UNCHANGED <<dlast, dprev, dops, dtouched>>
    /\ UNCHANGED <<cbVars, runVars, rendering, ioVars, bufVars>>

\* What every digital pin call does to the state: r is the result of the
\* call, touched the bit field it is meant to write, shadow the levels last
\* written once the call has returned.
DigitalCall(op, frame, channel, value, mode, r, touched, shadow) ==
    /\ digital' = r.digital
    /\ dprev' = dlast
    /\ dlast' = [op |-> op, frame |-> frame, channel |-> channel,
                 value |-> value, mode |-> mode, panicked |-> r.panicked,
                 ret |-> r.ret, before |-> digital]
    /\ dops' = dops + 1
    /\ dtouched' = IF r.panicked THEN dtouched ELSE dtouched \cup touched
    /\ dshadow' = IF r.panicked THEN dshadow ELSE shadow
    /\ UNCHANGED <<digitalFrames, digitalChannels, dinit, overflow_checks>>
    /\ UNCHANGED <<cbVars, runVars, rendering, ioVars, bufVars>>

\* A call can be made while render runs: a panic of a call ends it.
DigitalCallable ==
    /\ digitalFrames > 0
    /\ dops < MaxOps
    /\ ~dlast.panicked

ShadowFrom(frame, channel, value) ==
    [i \in 1..Len(dshadow) |->
        IF i - 1 < frame THEN dshadow[i]
        ELSE [dshadow[i] EXCEPT ![channel] = Level(value)]]

ShadowAt(frame, channel, value) ==
    [i \in 1..Len(dshadow) |->
        IF i - 1 /= frame THEN dshadow[i]
        ELSE [dshadow[i] EXCEPT ![channel] = Level(value)]]

\* The five calls with the frame argument drawn from F and the channel
\* argument from C.
DigitalReadOn(F, C) ==
    \E frame \in F, channel \in C :
        DigitalCall("digital_read", frame, channel, FALSE, "none",
                    digital_read(digital, frame, channel), {}, dshadow)

DigitalWriteOn(F, C) ==
    \E frame \in F, channel \in C, value \in BOOLEAN :
        DigitalCall("digital_write", frame, channel, value, "none",
                    digital_write(digital, frame, channel, value),
                    {<<channel, "value">>},
                    ShadowFrom(frame, channel, value))

DigitalWriteOnceOn(F, C) ==
    \E frame \in F, channel \in C, value \in BOOLEAN :
        DigitalCall("digital_write_once", frame, channel, value, "none",
                    digital_write_once(digital, frame, channel, value),
                    {<<channel, "value">>},
                    ShadowAt(frame, channel, value))

PinModeOn(F, C) ==
    \E frame \in F, channel \in C, mode \in DigitalDirection :
        DigitalCall("pin_mode", frame, channel, mode = "Input", mode,
                    pin_mode(digital, frame, channel, mode),
                    {<<channel, "direction">>}, dshadow)

PinModeOnceOn(F, C) ==
    \E frame \in F, channel \in C, mode \in DigitalDirection :
        DigitalCall("pin_mode_once", frame, channel, mode = "Input", mode,
                    pin_mode_once(digital, frame, channel, mode),
                    {<<channel, "direction">>}, dshadow)

DigitalRead == DigitalCallable /\ DigitalReadOn(FrameArgs, ChannelArgs)

DigitalWrite == DigitalCallable /\ DigitalWriteOn(FrameArgs, ChannelArgs)

DigitalWriteOnce ==
    DigitalCallable /\ DigitalWriteOnceOn(FrameArgs, ChannelArgs)

PinMode == DigitalCallable /\ PinModeOn(FrameArgs, ChannelArgs)

PinModeOnce == DigitalCallable /\ PinModeOnceOn(FrameArgs, ChannelArgs)

NextDigital ==
    \/ DigitalBegin
    \/ DigitalRead
    \/ DigitalWrite
    \/ DigitalWriteOnce
    \/ PinMode
    \/ PinModeOnce

SpecDigital == Init /\ [][NextDigital]_vars

\* ---------- SpecDigitalEdge: calls with arguments at and past the limits
\* Frame arguments: those above, and the last index of the slice, its
\* length and one more.
EdgeFrameArgs ==
    FrameArgs \cup {Len(digital) - 1, Len(digital), Len(digital) + 1}

EdgeCallable ==
    /\ digitalFrames > 0
    /\ dops < MaxEdgeOps
    /\ ~dlast.panicked

EdgeDigitalRead ==
    EdgeCallable /\ DigitalReadOn(EdgeFrameArgs, EdgeChannelArgs)

EdgeDigitalWrite ==
    EdgeCallable /\ DigitalWriteOn(EdgeFrameArgs, EdgeChannelArgs)

EdgeDigitalWriteOnce ==
    EdgeCallable /\ DigitalWriteOnceOn(EdgeFrameArgs, EdgeChannelArgs)

EdgePinMode == EdgeCallable /\ PinModeOn(EdgeFrameArgs, EdgeChannelArgs)

EdgePinModeOnce ==
    EdgeCallable /\ PinModeOnceOn(EdgeFrameArgs, EdgeChannelArgs)

NextDigitalEdge ==
    \/ DigitalBegin
    \/ EdgeDigitalRead
    \/ EdgeDigitalWrite
    \/ EdgeDigitalWriteOnce
    \/ EdgePinMode
    \/ EdgePinModeOnce

SpecDigitalEdge == Init /\ [][NextDigitalEdge]_vars

\* ------------- SpecView: buffer views in two executions on the same inputs
\* The engine's inputs are fixed: one script for both executions.
ViewScript ==
    /\ vscript = -1
    /\ \E s \in ViewScripts : vscript' = s
    /\ UNCHANGED <<vruns, vlast>>
    /\ UNCHANGED <<cbVars, runVars, rendering, digVars, midiVars, ioVars>>

\* The application of execution r calls a view method during its next
\* render invocation.
ViewCall ==
    /\ vscript /= -1
    /\ \E r \in Executions, name \in ViewNames :
          /\ vruns[r].k < MaxCalls
          /\ LET v == buffer_view(name, raw(vscript, vruns[r].k))
             IN vlast' = [run |-> r, name |-> name, k |-> vruns[r].k,
                          some |-> v.some, len |-> v.len]
    /\ UNCHANGED <<vscript, vruns>>
    /\ UNCHANGED <<cbVars, runVars, rendering, digVars, midiVars, ioVars>>

\* The next render invocation of execution r runs and returns; what is in
\* the audio output buffer afterwards is the output of the invocation.
ViewRender ==
    /\ vscript /= -1
    /\ \E r \in Executions :
          /\ vruns[r].k < MaxCalls
          /\ LET res == render_invocation(vruns[r].app,
                                          raw(vscript, vruns[r].k))
             IN vruns' = [vruns EXCEPT ![r] =
                             [k |-> @.k + 1, app |-> res.app,
                              out |-> Append(@.out, res.out)]]
    /\ UNCHANGED <<vscript, vlast>>
    /\ UNCHANGED <<cbVars, runVars, rendering, digVars, midiVars, ioVars>>

NextView ==
    \/ ViewScript
    \/ ViewCall
    \/ ViewRender

SpecView == Init /\ [][NextView]_vars

\* ---------- SpecMidi: render polls the midi input
\* User code in render calls get_midi_message with its 3-byte buffer; the
\* engine answers the two calls.  A panic ends the render invocation.
MidiGetMessage ==
    /\ mcalls < MaxCalls
    /\ ~mlast.panicked
    /\ \E avail \in MidiAvailable, ret \in MidiReturns,
          msg \in MidiMessages :
          LET r == get_midi_message(avail, ret, msg, mbuf)
          IN /\ mbuf' = r.buffer
             /\ mlast' = [avail |-> avail, called |-> r.called,
                          ret |-> IF r.called THEN ret ELSE 0,
                          some |-> r.some, panicked |-> r.panicked,
                          slice |-> r.slice]
    /\ mcalls' = mcalls + 1
    /\ UNCHANGED <<cbVars, runVars, rendering, digVars, viewVars, ioVars>>

NextMidi == MidiGetMessage

SpecMidi == Init /\ [][NextMidi]_vars

\* ------------------------------------------ Spec: Bela::run and the engine
\* setup_signal_handler: signal_handler becomes the handler of SIGINT and of
\* SIGTERM (two sigaction calls, both unwrapped).
setup_signal_handler ==
    /\ ~halted
    /\ pc = "signal_handler"
    /\ sigHandlers' = sigHandlers \cup {"SIGINT", "SIGTERM"}
    /\ engineCalls' = engineCalls \o <<"sigaction_SIGINT", "sigaction_SIGTERM">>
    /\ pc' = "init"
    /\ UNCHANGED <<result, initRc, startRc, stopRequests, stopObserved,
                   audioRunning, polls>>
    /\ UNCHANGED cbVars
    /\ UNCHANGED <<audioVars, ioVars>>

\* signal_handler: a delivered SIGINT or SIGTERM calls Bela_requestStop().
signal_handler ==
    /\ ~halted
    /\ \E sig \in sigHandlers : stopRequests' = stopRequests \cup {sig}
    /\ UNCHANGED <<pc, result, engineCalls, initRc, startRc, sigHandlers,
                   stopObserved, audioRunning, polls>>
    /\ UNCHANGED cbVars
    /\ UNCHANGED <<audioVars, ioVars>>

\* Faulty variant: leaves the cleanup callback of the settings unset.
cleanup_unregistered == FALSE

\* `settings.cleanup = Some(cleanup_trampoline)`: the engine has a cleanup
\* callback to invoke.
cleanup_registered == TRUE

\* `settings.setup = Some(setup_trampoline)`
setup_registered == TRUE

\* `settings.render = Some(render_trampoline)`
render_registered == TRUE

\* Faulty variant: goes on to start the engine whatever Bela_initAudio
\* returned.
init_failed_never(rc) == FALSE

\* `Bela_initAudio(..) != 0`
init_failed(rc) == rc /= 0

\* Faulty variant: takes only positive codes of Bela_startAudio as failures.
start_failed_positive(rc) == rc > 0

\* `Bela_startAudio() != 0`
start_failed(rc) == rc /= 0

\* A panic has left a callback that the engine invoked inside a call made
\* by run, so that call does not return.  Either the process is aborted
\* there, or the unwinding goes on through the engine's frames into run,
\* which is then left by the panic.
EscapedInto(esc) ==
    /\ IF esc = "abort"
       THEN /\ result' = result
            /\ pc' = pc
       ELSE /\ result' = "Unwound"
            /\ pc' = "return"

\* `if Bela_initAudio(settings, &mut user_data) != 0 { return Err(Init) }`.
\* The engine either fails before it reaches the user's setup (early, with a
\* nonzero code) or invokes setup_trampoline once and returns a code.  A
\* constructor that runs calls create_auxiliary_task n times, the engine
\* answering each call with a handle or with null; the handles live in the
\* application it returns.
InitAudio ==
    /\ ~halted
    /\ pc = "init"
    /\ \E early \in BOOLEAN, outcome \in CtorOutcomes, rc \in RcSet,
          n \in 0..MaxTasks, esc \in EscapeOutcomes :
       \E nulls \in [1..n -> BOOLEAN] :
          /\ early => rc /= 0
          /\ IF early \/ ~setup_registered
             THEN /\ n = 0
                  /\ UNCHANGED cbVars
             ELSE /\ (n > 0) => (setup_trampoline(user_data, outcome,
                                                  "Returns").ctor = 1)
                  /\ InvokeSetup(outcome, "Returns", esc)
          /\ tasks' = [t \in 1..n |->
                          [NewTask(create_auxiliary_task(nulls[t]), "setup")
                              EXCEPT !.held = (@ /\ outcome = "Some")]]
          /\ IF ~early /\ setup_registered
                 /\ setup_trampoline(user_data, outcome, "Returns").escaped
             THEN /\ initRc' = initRc
                  /\ EscapedInto(esc)
             ELSE /\ initRc' = <<rc>>
                  /\ IF init_failed(rc)
                     THEN /\ result' = "ErrInit"
                          /\ pc' = "return"
                     ELSE /\ result' = result
                          /\ pc' = "start"
    /\ engineCalls' = Append(engineCalls, "Bela_initAudio")
    /\ UNCHANGED <<startRc, sigHandlers, stopRequests, stopObserved,
                   audioRunning, polls>>
    /\ UNCHANGED <<audioVars, ctx, inCb, api, auxlast>>

\* `if Bela_startAudio() != 0 { return Err(Start) }`; on success the engine's
\* audio thread runs.  Bela_startAudio creates the audio thread and then
\* starts the auxiliary tasks: when it returns a nonzero code the audio
\* thread is running (up) if the failure came after the first step.  run
\* returns Err(Start) for any nonzero code, without calling Bela_stopAudio
\* or Bela_cleanupAudio.
StartAudio ==
    /\ ~halted
    /\ pc = "start"
    /\ \E rc \in RcSet, up \in BOOLEAN :
          /\ startRc' = <<rc>>
          /\ IF start_failed(rc)
             THEN /\ result' = "ErrStart"
                  /\ pc' = "return"
                  /\ audioRunning' = up
             ELSE /\ up
                  /\ result' = result
                  /\ pc' = "poll"
                  /\ audioRunning' = TRUE
    /\ engineCalls' = Append(engineCalls, "Bela_startAudio")
    /\ UNCHANGED <<initRc, sigHandlers, stopRequests, stopObserved, polls>>
    /\ UNCHANGED cbVars
    /\ UNCHANGED <<audioVars, ioVars>>

\* Bela_stopRequested(): the engine's stop flag, set by Bela_requestStop().
Bela_stopRequested == stopRequests /= {}

\* Faulty variant: the loop condition is inverted, so that it leaves the loop
\* while no stop has been requested.
poll_continues_inverted(flag) == flag

\* `while Bela_stopRequested() == 0`
poll_continues(flag) == ~flag

\* Faulty variant: Bela_stopAudio() is left out after the loop.
after_poll_skip_stop == "cleanup"

\* The statement that follows the polling loop: Bela_stopAudio().
after_poll == "stop"

\* One evaluation of the loop condition, followed by sleep(10us) when it
\* holds.
PollStop ==
    /\ ~halted
    /\ pc = "poll"
    /\ IF poll_continues(Bela_stopRequested)
       THEN /\ polls < MaxPolls
            /\ polls' = polls + 1
            /\ pc' = pc
            /\ stopObserved' = stopObserved
       ELSE /\ polls' = polls
            /\ pc' = after_poll
            /\ stopObserved' = Bela_stopRequested
    /\ engineCalls' = Append(engineCalls, "Bela_stopRequested")
    /\ UNCHANGED <<result, initRc, startRc, sigHandlers, stopRequests,
                   audioRunning>>
    /\ UNCHANGED cbVars
    /\ UNCHANGED <<audioVars, ioVars>>

\* Bela_stopAudio(): the audio thread is stopped and joined, so the call
\* returns only when no render_trampoline invocation is in flight.
StopAudio ==
    /\ ~halted
    /\ pc = "stop"
    /\ ~rendering
    /\ audioRunning' = FALSE
    /\ pc' = "cleanup"
    /\ engineCalls' = Append(engineCalls, "Bela_stopAudio")
    /\ UNCHANGED <<result, initRc, startRc, sigHandlers, stopRequests,
                   stopObserved, polls>>
    /\ UNCHANGED cbVars
    /\ UNCHANGED <<audioVars, ioVars>>

\* Bela_cleanupAudio(), in which the engine invokes cleanup_trampoline once,
\* then `Ok(())`.
CleanupAudio ==
    /\ ~halted
    /\ pc = "cleanup"
    /\ IF cleanup_registered
       THEN \E drop \in CallOutcomes, esc \in EscapeOutcomes :
                /\ InvokeCleanup(drop, esc)
                /\ IF cleanup_trampoline(user_data, drop).escaped
                   THEN EscapedInto(esc)
                   ELSE /\ result' = "Ok"
                        /\ pc' = "return"
       ELSE /\ UNCHANGED cbVars
            /\ result' = "Ok"
            /\ pc' = "return"
    /\ tasks' = IF cleanup_registered THEN DropHandles(tasks) ELSE tasks
    /\ engineCalls' = Append(engineCalls, "Bela_cleanupAudio")
    /\ UNCHANGED <<initRc, startRc, sigHandlers, stopRequests, stopObserved,
                   audioRunning, polls>>
    /\ UNCHANGED <<audioVars, ctx, inCb, api, auxlast>>

\* Builds: with the feature "static" InitSettings holds the engine's
\* settings by value and has no Drop; without it (the default) InitSettings
\* holds a pointer and its Drop calls Bela_InitSettings_free.
FeatureStatic == BOOLEAN

\* The engine calls made when `settings` is dropped.
drop_settings(static) ==
    IF static THEN << >> ELSE <<"Bela_InitSettings_free">>

\* run is left, by a return or by a panic: its locals are dropped, first
\* user_data, then settings.  What UserData still holds is dropped here (on
\* the Err paths this is where an application that setup stored is
\* dropped, or the constructor when Bela_initAudio failed before it called
\* setup); when that drop panics the panic leaves run in place of the value
\* it was returning; settings is dropped in either case.
ReturnFromRun ==
    /\ ~halted
    /\ pc = "return"
    /\ \E drop \in CallOutcomes, static \in FeatureStatic :
          /\ ~drops_user_value(user_data) => (drop = "Returns")
          /\ result' = IF Panics(drop) THEN "Unwound" ELSE result
          /\ engineCalls' = engineCalls \o drop_settings(static)
    /\ appDrops' = appDrops + (IF user_data = "Application" THEN 1 ELSE 0)
    /\ user_data' = user_data
    /\ pc' = "done"
    /\ UNCHANGED <<ctorCalls, ctorOutcome, appRenders, setupCalls,
                   renderCalls, cleanupCalls, setupRets, last, panicEscaped,
                   halted>>
    /\ tasks' = DropHandles(tasks)
    /\ UNCHANGED <<initRc, startRc, sigHandlers,
                   stopRequests, stopObserved, audioRunning, polls>>
    /\ UNCHANGED <<audioVars, ctx, inCb, api, auxlast>>

\* The engine's audio thread enters render_trampoline for one buffer: from
\* here to the return of the callback it holds `&mut UserData`.
EngineRenderEnter ==
    /\ ~halted
    /\ audioRunning
    /\ render_registered
    /\ ~rendering
    /\ renderCalls < MaxCalls
    /\ rendering' = TRUE
    /\ UNCHANGED <<digVars, bufVars>>
    /\ UNCHANGED runVars
    /\ UNCHANGED cbVars
    /\ UNCHANGED ioVars

\* The application's render, running inside the invocation in flight,
\* schedules one of its tasks: the engine queues it at once, so the task's
\* thread may run it before render returns.
EngineRenderSchedule ==
    /\ ~halted
    /\ rendering
    /\ render_trampoline(user_data, FALSE).renders = 1
    /\ \E t \in 1..Len(tasks) :
          /\ tasks[t].held
          /\ Scheduled(tasks) < MaxSched
          /\ schedule_auxiliary_task(0) = "Ok"
          /\ tasks' = [tasks EXCEPT
                          ![t].pending = @ + 1,
                          ![t].schedIn = @ \cup {"render"}]
    /\ UNCHANGED <<ctx, inCb, api, auxlast>>
    /\ UNCHANGED <<cbVars, runVars, audioVars>>

\* The render_trampoline invocation in flight runs to its end and returns
\* (or is left by a panic of render), while run's frame exists.
EngineRender ==
    /\ ~halted
    /\ rendering
    /\ pc /= "done"
    /\ \E renderPanics \in BOOLEAN, esc \in EscapeOutcomes :
          InvokeRender(renderPanics, esc)
    /\ rendering' = FALSE
    /\ UNCHANGED <<digVars, bufVars>>
    /\ UNCHANGED runVars
    /\ UNCHANGED ioVars

\* The engine itself requests the stop while the audio thread runs (stop
\* button, a fault after a render, or the render code asking for it).
EngineRequestStop ==
    /\ ~halted
    /\ audioRunning
    /\ "engine" \notin stopRequests
    /\ stopRequests' = stopRequests \cup {"engine"}
    /\ UNCHANGED <<pc, result, engineCalls, initRc, startRc, sigHandlers,
                   stopObserved, audioRunning, polls>>
    /\ UNCHANGED cbVars
    /\ UNCHANGED <<audioVars, ioVars>>

\* What a render_trampoline invocation can find behind its pointer once
\* run has returned: the bytes of any variant, or memory whose use crashes
\* the process.
DanglingReads == Variants \cup {"crash"}

\* A render_trampoline invocation that runs after run has returned reads
\* UserData through a pointer into a frame that no longer exists.  The read
\* is undefined: the old frame may have been reused, so the trampoline acts
\* on any variant it happens to find there (an application found there has
\* already been dropped), or the process crashes.  The variable user_data
\* keeps what the frame held when run returned.
EngineRenderDangling ==
    /\ ~halted
    /\ rendering
    /\ pc = "done"
    /\ \E seen \in DanglingReads, renderPanics \in BOOLEAN,
          esc \in EscapeOutcomes :
          IF seen = "crash"
          THEN /\ halted' = TRUE
               /\ UNCHANGED <<appRenders, last, panicEscaped>>
          ELSE LET r == render_trampoline(seen, renderPanics)
               IN /\ appRenders' = appRenders + r.renders
                  /\ panicEscaped' = (panicEscaped \/ r.escaped)
                  /\ halted' = (r.escaped /\ esc = "abort")
                  /\ last' = [cb |-> "render", before |-> seen,
                              after |-> r.user_data,
                              outcome |-> "NotCalled", ret |-> FALSE,
                              ctx |-> r.ctx, renders |-> r.renders,
                              dropped |-> 0,
                              panicked |-> (renderPanics /\ r.renders = 1),
                              escaped |-> r.escaped]
    /\ renderCalls' = renderCalls + 1
    /\ rendering' = FALSE
    /\ UNCHANGED <<user_data, ctorCalls, ctorOutcome, appDrops, setupCalls,
                   cleanupCalls, setupRets>>
    /\ UNCHANGED <<digVars, bufVars>>
    /\ UNCHANGED runVars
    /\ UNCHANGED ioVars

Next ==
    \/ setup_signal_handler
    \/ signal_handler
    \/ InitAudio
    \/ StartAudio
    \/ PollStop
    \/ StopAudio
    \/ CleanupAudio
    \/ ReturnFromRun
    \/ EngineRenderEnter
    \/ EngineRenderSchedule
    \/ EngineRender
    \/ EngineRenderDangling
    \/ EngineRequestStop
    \/ AuxiliaryTaskRun

Spec == Init /\ [][Next]_vars

\* Spec with the scheduling the program relies on: the thread executing run
\* keeps taking its next step (poll, Bela_stopAudio, Bela_cleanupAudio,
\* return), and a render invocation in flight returns.
SpecFair ==
    /\ Spec
    /\ WF_vars(PollStop)
    /\ WF_vars(StopAudio)
    /\ WF_vars(CleanupAudio)
    /\ WF_vars(ReturnFromRun)
    /\ WF_vars(EngineRender)

\* ------------------------------------------------------------- properties
\* Number of setup invocations that returned true.
SetupTrue == Cardinality({i \in 1..Len(setupRets) : setupRets[i]})

\* The engine calls among engineCalls.
Called(name) == \E i \in 1..Len(engineCalls) : engineCalls[i] = name

TypeOK ==
    /\ user_data \in Variants
    /\ ctorCalls \in 0..(MaxCalls + 1)
    /\ ctorOutcome \in CtorOutcomes \cup {"NotCalled"}
    /\ appRenders \in 0..MaxCalls
    /\ appDrops \in 0..(MaxCalls + 1)
    /\ setupCalls \in 0..MaxCalls
    /\ renderCalls \in 0..MaxCalls
    /\ cleanupCalls \in 0..MaxCalls
    /\ setupRets \in Seq(BOOLEAN)
    /\ last.cb \in {"none", "setup", "render", "cleanup"}
    /\ panicEscaped \in BOOLEAN
    /\ halted \in BOOLEAN
    /\ pc \in {"signal_handler", "init", "start", "poll", "stop", "cleanup",
               "return", "done"}
    /\ result \in {"Running", "Ok", "ErrInit", "ErrStart", "Unwound"}
    /\ Len(initRc) \in {0, 1}
    /\ Len(startRc) \in {0, 1}
    /\ sigHandlers \subseteq {"SIGINT", "SIGTERM"}
    /\ stopRequests \subseteq {"SIGINT", "SIGTERM", "engine"}
    /\ stopObserved \in BOOLEAN
    /\ audioRunning \in BOOLEAN
    /\ polls \in 0..MaxPolls
    /\ rendering \in BOOLEAN

\* C1: when setup_trampoline runs on UserData = Constructor, UserData is
\* Application afterwards exactly when the constructor returned Some(app) and
\* None otherwise (constructor returned None or panicked), and the boolean
\* returned, when setup_trampoline returns one, is true exactly when
\* UserData is Application afterwards.
C1_SetupOutcome ==
    (last.cb = "setup" /\ last.before = "Constructor") =>
        /\ last.outcome \in CtorOutcomes
        /\ (last.after = "Application") <=> (last.outcome = "Some")
        /\ (last.after /= "Application") => (last.after = "None")
        /\ ~last.escaped => (last.ret <=> (last.after = "Application"))
        /\ last.escaped => (last.outcome = "PanicBomb")
        /\ user_data = last.after

C1_Witness ==
    /\ last.cb = "setup"
    /\ last.before = "Constructor"
    /\ last.outcome = "Some"
    /\ last.ret
    /\ user_data = "Application"

\* C2: whatever callbacks are invoked, in whatever order and number, the
\* constructor is called at most once, and once a setup invocation has
\* returned UserData is never Constructor again.
C2_ConstructorOnce ==
    /\ ctorCalls <= 1
    /\ (Len(setupRets) >= 1) => (user_data /= "Constructor")

C2_Witness ==
    /\ setupCalls >= 2
    /\ renderCalls >= 1
    /\ cleanupCalls >= 1
    /\ ctorCalls = 1

\* C3: with the engine invoking the callbacks as in Bela::run, every change
\* of the UserData variant is Constructor -> Application or Constructor ->
\* None made by a setup invocation, or Application -> None made by a cleanup
\* invocation; no setup or render invocation takes it from Application to
\* None and no cleanup invocation changes it from Constructor.
C3_Step ==
    /\ (user_data' /= user_data) =>
          \/ /\ setupCalls' = setupCalls + 1
             /\ user_data = "Constructor"
             /\ user_data' \in {"Application", "None"}
          \/ /\ cleanupCalls' = cleanupCalls + 1
             /\ user_data = "Application"
             /\ user_data' = "None"
    /\ (setupCalls' /= setupCalls \/ renderCalls' /= renderCalls) =>
          ~(user_data = "Application" /\ user_data' = "None")
    /\ (cleanupCalls' /= cleanupCalls) =>
          ~(user_data = "Constructor" /\ user_data' /= "Constructor")

C3_LegalTransitions == [][C3_Step]_vars

C3_Witness ==
    /\ last.cb = "cleanup"
    /\ last.before = "Application"
    /\ last.after = "None"
    /\ renderCalls >= 1
    /\ setupCalls = 1

\* C4: if the constructor panics, the panic stays inside setup_trampoline:
\* no panic has left a callback, every setup invocation has returned false,
\* UserData is None and no application render has happened or ever happens.
C4_ConstructorPanicContained ==
    (ctorOutcome \in {"Panic", "PanicBomb"}) =>
        /\ ~panicEscaped
        /\ ~halted
        /\ Len(setupRets) = setupCalls
        /\ \A i \in 1..Len(setupRets) : ~setupRets[i]
        /\ user_data = "None"
        /\ appRenders = 0

\* C5: a render_trampoline invocation calls the application's render once,
\* with a Render-tagged Context, when UserData is Application, and calls
\* nothing when UserData is Constructor or None; the variant of UserData is
\* the same after the invocation as before.
C5_RenderEffect ==
    (last.cb = "render") =>
        /\ last.renders = (IF last.before = "Application" THEN 1 ELSE 0)
        /\ (last.renders = 1) => (last.ctx = "Render")
        /\ (last.renders = 0) => (last.ctx = "none" /\ ~last.panicked)
        /\ last.dropped = 0
        /\ last.after = last.before
        /\ user_data = last.before

C5_Witness ==
    /\ last.cb = "render"
    /\ last.before = "Application"
    /\ last.renders = 1
    /\ last.ctx = "Render"
    /\ appRenders >= 2

\* C6: after a cleanup_trampoline invocation UserData is None and the
\* application, if one was constructed, has been dropped exactly once; a
\* panic of that drop does not leave cleanup_trampoline and UserData is None
\* all the same.
C6_CleanupDrops ==
    /\ appDrops <= 1
    /\ (cleanupCalls >= 1) =>
          /\ user_data = "None"
          /\ appDrops = (IF ctorOutcome = "Some" THEN 1 ELSE 0)
    /\ (last.cb = "cleanup") =>
          /\ ~last.escaped
          /\ last.after = "None"
          /\ last.dropped = (IF last.before = "Application" THEN 1 ELSE 0)

\* C7 as stated: by the time run returns, however it ends, each setup
\* invocation that returned true is matched by exactly one cleanup callback
\* invocation.
C7_Original ==
    (pc = "done" /\ SetupTrue >= 1) => (cleanupCalls = SetupTrue)

\* C7, amended: when run returns Ok(()) the cleanup callback has been invoked
\* exactly once, so that a setup invocation that returned true is matched by
\* exactly one cleanup invocation; when Bela_initAudio or Bela_startAudio
\* has failed (run returns Err(Init) or Err(Start), or is left by the panic
\* of a drop) the cleanup callback has not been invoked at all, and an
\* application that setup had stored is dropped with run's frame instead.
C7_CleanupPerSuccessfulRun ==
    (pc = "done") =>
        /\ SetupTrue <= 1
        /\ (result = "Ok") => (cleanupCalls = 1)
        /\ (result \in {"ErrInit", "ErrStart"}) => (cleanupCalls = 0)
        /\ (~Called("Bela_cleanupAudio")) => (cleanupCalls = 0)
        /\ (ctorOutcome = "Some") => (appDrops = 1)

C7_Witness ==
    /\ pc = "done"
    /\ result = "Ok"
    /\ SetupTrue = 1
    /\ cleanupCalls = 1
    /\ "engine" \in stopRequests
    /\ renderCalls >= 1

\* C8 as stated: run returns Err(Init) exactly when Bela_initAudio returned
\* nonzero, and then has called neither start, stop nor cleanup of the
\* engine; it returns Err(Start) exactly when Bela_initAudio returned 0 and
\* Bela_startAudio nonzero, and then has called neither stop nor cleanup; it
\* returns Ok(()) only when both returned 0.
C8_Original ==
    /\ (result = "ErrInit") <=> (Len(initRc) = 1 /\ initRc[1] /= 0)
    /\ (result = "ErrInit") =>
          /\ ~Called("Bela_startAudio")
          /\ ~Called("Bela_stopAudio")
          /\ ~Called("Bela_cleanupAudio")
    /\ (result = "ErrStart") <=>
          (initRc = <<0>> /\ Len(startRc) = 1 /\ startRc[1] /= 0)
    /\ (result = "ErrStart") =>
          /\ ~Called("Bela_stopAudio")
          /\ ~Called("Bela_cleanupAudio")
    /\ (result = "Ok") => (initRc = <<0>> /\ startRc = <<0>>)
    /\ (pc = "done") => (result /= "Running")

InitNonzero == Len(initRc) = 1 /\ initRc[1] /= 0
StartNonzero == initRc = <<0>> /\ Len(startRc) = 1 /\ startRc[1] /= 0

\* C8, amended: when Bela_initAudio returns nonzero run calls neither start,
\* stop nor cleanup of the engine and leaves with Err(Init); when
\* Bela_initAudio returns 0 and Bela_startAudio nonzero it calls neither stop
\* nor cleanup and leaves with Err(Start); in both cases the value is what
\* run returns unless the drop of what UserData holds panics when run's
\* frame is left (the application that setup stored, or the constructor
\* when setup was never invoked), and then that panic leaves run instead.
\* run returns Err(Init), Err(Start) and Ok(()) in no other case, Ok(()) only
\* when both calls returned 0.
C8_ErrorMapping ==
    /\ (result = "ErrInit") => InitNonzero
    /\ InitNonzero =>
          /\ result \in {"ErrInit", "Unwound"}
          /\ (result = "Unwound") =>
                /\ pc = "done"
                /\ \/ ctorOutcome = "Some" /\ appDrops = 1
                   \/ user_data = "Constructor" /\ setupCalls = 0
          /\ ~Called("Bela_startAudio")
          /\ ~Called("Bela_stopAudio")
          /\ ~Called("Bela_cleanupAudio")
    /\ (result = "ErrStart") => StartNonzero
    /\ StartNonzero =>
          /\ result \in {"ErrStart", "Unwound"}
          /\ (result = "Unwound") =>
                (pc = "done" /\ ctorOutcome = "Some" /\ appDrops = 1)
          /\ ~Called("Bela_stopAudio")
          /\ ~Called("Bela_cleanupAudio")
    /\ (result = "Ok") => (initRc = <<0>> /\ startRc = <<0>>)
    /\ (pc = "done") => (result /= "Running")

\* Bela_startAudio failed after setup had stored an application, and the
\* drop of that application panicked when run's frame was left.
C8_Witness ==
    /\ pc = "done"
    /\ result = "Unwound"
    /\ initRc = <<0>>
    /\ startRc = <<-1>>
    /\ appDrops = 1
    /\ cleanupCalls = 0

\* C9 as stated: when the constructor returns None, run returns Ok(()) and
\* has called neither start, stop nor cleanup of the engine.
C9_Original ==
    (pc = "done" /\ ctorOutcome = "None") =>
        /\ result = "Ok"
        /\ ~Called("Bela_startAudio")
        /\ ~Called("Bela_stopAudio")
        /\ ~Called("Bela_cleanupAudio")

\* C9, amended: when the constructor returns None, setup returns false and
\* UserData holds no application; if Bela_initAudio then reports failure run
\* returns Err(Init) and calls neither start, stop nor cleanup of the engine,
\* and run returns Ok(()) only after it has called start, stop and cleanup of
\* the engine.
C9_DeclinedConstructor ==
    (pc = "done" /\ ctorOutcome = "None") =>
        /\ setupRets = <<FALSE>>
        /\ user_data = "None"
        /\ (initRc[1] /= 0) =>
              /\ result = "ErrInit"
              /\ ~Called("Bela_startAudio")
              /\ ~Called("Bela_stopAudio")
              /\ ~Called("Bela_cleanupAudio")
        /\ (result = "Ok") =>
              /\ Called("Bela_startAudio")
              /\ Called("Bela_stopAudio")
              /\ Called("Bela_cleanupAudio")

C9_Witness ==
    /\ pc = "done"
    /\ ctorOutcome = "None"
    /\ result = "ErrInit"
    /\ engineCalls = <<"sigaction_SIGINT", "sigaction_SIGTERM",
                       "Bela_initAudio">>

\* The steps of run in program order.
RunOrder ==
    <<"sigaction_SIGINT", "sigaction_SIGTERM", "Bela_initAudio",
      "Bela_startAudio", "Bela_stopRequested", "Bela_stopAudio",
      "Bela_cleanupAudio">>

Rank(name) == CHOOSE k \in 1..Len(RunOrder) : RunOrder[k] = name

\* The calls of engineCalls that are steps of run, without the call made by
\* the drop of the settings when run is left.
IsRunStep(name) == name /= "Bela_InitSettings_free"
RunSteps == SelectSeq(engineCalls, IsRunStep)

\* C10: the calls run makes are, in this order and each at most once except
\* the poll: sigaction for SIGINT and SIGTERM, Bela_initAudio,
\* Bela_startAudio, Bela_stopRequested (repeated), Bela_stopAudio,
\* Bela_cleanupAudio; the three callbacks are registered before
\* Bela_initAudio; Bela_stopAudio and Bela_cleanupAudio are called only after
\* a poll has observed the stop request.
C10_RunOrder ==
    /\ (Len(RunSteps) >= 1) => (Rank(RunSteps[1]) = 1)
    /\ \A i \in 1..(Len(RunSteps) - 1) :
          \/ Rank(RunSteps[i + 1]) = Rank(RunSteps[i]) + 1
          \/ /\ RunSteps[i] = "Bela_stopRequested"
             /\ RunSteps[i + 1] = "Bela_stopRequested"
    /\ \A i \in 1..Len(engineCalls) :
          ~IsRunStep(engineCalls[i]) => (i = Len(engineCalls) /\ pc = "done")
    /\ Called("Bela_initAudio") =>
          (setup_registered /\ render_registered /\ cleanup_registered)
    /\ (Called("Bela_stopAudio") \/ Called("Bela_cleanupAudio")) =>
          (stopObserved /\ Bela_stopRequested)

C10_Witness ==
    /\ pc = "done"
    /\ result = "Ok"
    /\ polls >= 1
    /\ Len(RunSteps) >= 8
    /\ RunSteps[Len(RunSteps)] = "Bela_cleanupAudio"
    /\ engineCalls[Len(engineCalls)] = "Bela_InitSettings_free"

\* After a successful Bela_startAudio, run is past its polling loop only if
\* a poll has observed the stop request.
C11_NoReturnWithoutStop ==
    (startRc = <<0>> /\ pc \in {"stop", "cleanup", "return", "done"}) =>
        (stopObserved /\ Bela_stopRequested)

\* A step in which a signal's request is added to the stop flag changes
\* nothing else.
C11_SignalStep ==
    (\E sig \in {"SIGINT", "SIGTERM"} :
        sig \in stopRequests' /\ sig \notin stopRequests) =>
        /\ stopRequests \subseteq stopRequests'
        /\ UNCHANGED <<cbVars, pc, result, engineCalls, initRc, startRc,
                       sigHandlers, stopObserved, audioRunning, polls,
                       audioVars, ioVars>>

\* run has called Bela_stopAudio and Bela_cleanupAudio and returned Ok(()).
C11_Returned ==
    /\ pc = "done"
    /\ result = "Ok"
    /\ Called("Bela_stopAudio")
    /\ Called("Bela_cleanupAudio")

\* The process was ended by a panic of the application's render, which
\* render_trampoline lets through (C16).
C11_RenderPanicEnded == halted /\ last.cb = "render" /\ last.escaped

\* C11: after a successful start run does not leave its polling loop while
\* no stop has been requested; once a stop has been requested (by SIGINT, by
\* SIGTERM or by the engine) while run polls, run eventually calls
\* Bela_stopAudio and Bela_cleanupAudio and returns Ok(()), as long as no
\* panic of render has ended the process; and the signal handler does
\* nothing but request the stop.
C11_StopLeadsToReturn ==
    /\ []C11_NoReturnWithoutStop
    /\ [][C11_SignalStep]_vars
    /\ ((pc = "poll" /\ Bela_stopRequested)
           ~> (C11_Returned \/ C11_RenderPanicEnded))

\* ---------------------------------------------------------------- C12
\* The steps of the three kinds of thread.  The thread executing run takes
\* the steps that move pc; the audio thread enters and leaves
\* render_trampoline; a task thread runs auxiliary_task_trampoline.
RunThreadStep == pc' /= pc
AudioThreadStep == rendering' /= rendering \/ renderCalls' /= renderCalls
AuxThreadStep == auxlast' /= auxlast \/ (\E t \in DOMAIN tasks :
                     t \in DOMAIN tasks' /\ tasks'[t].runs /= tasks[t].runs)

\* A step that reads or writes UserData: a callback invocation, or the drop
\* of run's local at its return.
TouchesUserData ==
    \/ user_data' /= user_data
    \/ setupCalls' /= setupCalls
    \/ renderCalls' /= renderCalls
    \/ cleanupCalls' /= cleanupCalls
    \/ appDrops' /= appDrops

C12_Step ==
    /\ (RunThreadStep /\ TouchesUserData) => ~rendering
    /\ (RunThreadStep /\ pc \in {"start", "poll", "stop"}) =>
           UNCHANGED <<user_data, ctorCalls, ctorOutcome, appRenders,
                       appDrops, setupCalls, renderCalls, cleanupCalls,
                       setupRets, last>>
    /\ (cleanupCalls' /= cleanupCalls) => (~rendering /\ ~rendering')
    /\ AuxThreadStep =>
           UNCHANGED <<user_data, ctorCalls, ctorOutcome, appRenders,
                       appDrops, setupCalls, renderCalls, cleanupCalls,
                       setupRets, last, rendering, pc>>
    /\ ~(RunThreadStep /\ AudioThreadStep)

\* C12: UserData has one writer at a time.  The thread executing run takes
\* no step that touches UserData while a render invocation is in flight (so
\* neither cleanup nor the drop of run's frame runs during a render);
\* between Bela_initAudio and Bela_cleanupAudio the thread executing run
\* leaves UserData alone; a task thread never touches it.
C12_SingleWriter == [][C12_Step]_vars

\* ---------------------------------------------------------------- C13
RenderOnlyKinds ==
    {ApiKind(op) : op \in RenderApi}

C13_Step ==
    (api' /= api /\ api'.kind = "schedule_auxiliary_task") =>
        /\ Len(tasks') = Len(tasks)
        /\ \A t \in DOMAIN tasks :
              /\ tasks'[t].createdIn = tasks[t].createdIn
              /\ tasks'[t].registered = tasks[t].registered
              /\ tasks'[t].held = tasks[t].held

\* C13: capabilities are split by phase.  Every task was created from inside
\* a setup invocation through a Setup-tagged Context and queued only from
\* inside render invocations; every call of schedule_auxiliary_task, of a
\* buffer view and of a digital pin method is made inside a render invocation
\* through a Render-tagged Context; scheduling creates no task and keeps the
\* handle usable.
C13_PhaseSplit ==
    /\ [](/\ \A t \in DOMAIN tasks :
                /\ tasks[t].createdIn = "setup"
                /\ tasks[t].schedIn \subseteq {"render"}
          /\ (api.kind = "create_auxiliary_task") =>
                (api.cb = "setup" /\ api.ctx = "Setup")
          /\ (api.kind \in RenderOnlyKinds) =>
                (api.cb = "render" /\ api.ctx = "Render")
          /\ (inCb = "setup") <=> (ctx = "Setup")
          /\ (inCb = "render") <=> (ctx = "Render"))
    /\ [][C13_Step]_vars

\* A handle created in setup is scheduled for the second time, in a render
\* invocation that follows a completed one.
C13_Witness ==
    /\ api.kind = "schedule_auxiliary_task"
    /\ api.ret = "Ok"
    /\ api.task \in DOMAIN tasks
    /\ tasks[api.task].createdIn = "setup"
    /\ tasks[api.task].pending + tasks[api.task].runs >= 2
    /\ tasks[api.task].schedIn = {"render"}
    /\ renderCalls >= 1

\* ---------------------------------------------------------------- C14
\* C14: create_auxiliary_task returns Err(CreateTask) exactly when the engine
\* gave a null handle, and then no handle exists; schedule_auxiliary_task
\* returns Ok(()) exactly when the engine's code is 0 and Err(ScheduleTask)
\* otherwise.
C14_TaskErrors ==
    /\ (api.kind = "create_auxiliary_task") =>
          /\ (api.ret = "ErrCreateTask") <=> api.null
          /\ (api.ret = "Ok") <=> ~api.null
          /\ tasks[api.task].held <=> (api.ret = "Ok")
    /\ (api.kind = "schedule_auxiliary_task") =>
          /\ (api.ret = "Ok") <=> (api.rc = 0)
          /\ (api.ret = "ErrScheduleTask") <=> (api.rc /= 0)

\* The first render after a successful create schedules the returned handle
\* and the engine accepts it.
C14_Witness ==
    /\ api.kind = "schedule_auxiliary_task"
    /\ api.rc = 0
    /\ api.ret = "Ok"
    /\ renderCalls = 0
    /\ tasks[api.task].pending = 1
    /\ tasks[api.task].runs = 0

\* ---------------------------------------------------------------- C15
\* C15: an invocation of auxiliary_task_trampoline calls the callable once; a
\* panic of the callable does not leave the trampoline and stops nothing, and
\* the task stays registered with its callable.
C15_TaskPanicContained ==
    (auxlast.task /= 0) =>
        /\ auxlast.calls = 1
        /\ ~auxlast.escaped
        /\ auxlast.panicked => ~halted
        /\ tasks[auxlast.task].registered
        /\ tasks[auxlast.task].leaked

\* ---------------------------------------------------------------- C16
\* C16: a panic of the application's render leaves render_trampoline: the
\* callback returns nothing to the engine, and UserData still holds the
\* application afterwards.
C16_RenderPanicEscapes ==
    (last.cb = "render" /\ last.panicked) =>
        /\ last.escaped
        /\ panicEscaped
        /\ last.before = "Application"
        /\ last.after = "Application"
        /\ last.renders = 1

C16_Witness ==
    /\ last.cb = "render"
    /\ last.panicked
    /\ last.escaped
    /\ user_data = "Application"

\* ---------------------------------------------------------------- C17
\* The bit a call writes: bit channel + 16 for the value calls, bit channel
\* for the direction calls.
WrittenBit(call) ==
    IF call.op \in {"digital_write", "digital_write_once"}
    THEN call.channel + 16
    ELSE call.channel

\* Word i differs from the word before the call in the written bit at most,
\* and that bit has the level asked for.
OnlyBitSet(call, i) ==
    /\ (WrittenBit(call) \in digital[i]) <=> call.value
    /\ digital[i] \ {WrittenBit(call)} = call.before[i] \ {WrittenBit(call)}

\* C17: digital_write and pin_mode at frame f give the value bit (bit c+16),
\* respectively the direction bit (bit c), the level asked for in every word
\* from f on and change nothing else: no word before f and no other bit.
\* digital_write_once and pin_mode_once do so in the word at f alone.
C17_WriteEffect ==
    /\ (dlast.op \in {"digital_write", "pin_mode"} /\ ~dlast.panicked) =>
          /\ Len(digital) = Len(dlast.before)
          /\ \A i \in 1..Len(digital) :
                IF i - 1 < dlast.frame
                THEN digital[i] = dlast.before[i]
                ELSE OnlyBitSet(dlast, i)
    /\ (dlast.op \in {"digital_write_once", "pin_mode_once"}
            /\ ~dlast.panicked) =>
          /\ Len(digital) = Len(dlast.before)
          /\ \A i \in 1..Len(digital) :
                IF i - 1 /= dlast.frame
                THEN digital[i] = dlast.before[i]
                ELSE OnlyBitSet(dlast, i)

\* digital_write(1, c, true) on a buffer of three frames raised the value bit
\* of the last frame and left frame 0 as it was.
C17_Witness ==
    /\ dlast.op = "digital_write"
    /\ ~dlast.panicked
    /\ dlast.value
    /\ dlast.frame = 1
    /\ digitalFrames = 3
    /\ (dlast.channel + 16) \notin dlast.before[3]
    /\ (dlast.channel + 16) \in digital[3]
    /\ digital[1] = dlast.before[1]

\* ---------------------------------------------------------------- C18
\* C18: after digital_write(f, c, true) followed by
\* digital_write_once(f, c, false) the value bit of c is 0 at f and 1 at every
\* later frame, and the frames before f are as before the two calls.
C18_WriteOnceOverrides ==
    (/\ dprev.op = "digital_write" /\ dprev.value /\ ~dprev.panicked
     /\ dlast.op = "digital_write_once" /\ ~dlast.value /\ ~dlast.panicked
     /\ dlast.frame = dprev.frame
     /\ dlast.channel = dprev.channel) =>
        \A i \in 1..Len(digital) :
            /\ (i - 1 = dlast.frame) => (dlast.channel + 16) \notin digital[i]
            /\ (i - 1 > dlast.frame) => (dlast.channel + 16) \in digital[i]
            /\ (i - 1 < dlast.frame) => digital[i] = dprev.before[i]

\* The two calls at frame 1 of a buffer of three frames: frame 1 is low,
\* frame 2 high.
C18_Witness ==
    /\ dprev.op = "digital_write" /\ dprev.value /\ ~dprev.panicked
    /\ dlast.op = "digital_write_once" /\ ~dlast.value /\ ~dlast.panicked
    /\ dlast.frame = 1 /\ dprev.frame = 1
    /\ dlast.channel = 0 /\ dprev.channel = 0
    /\ digitalFrames = 3
    /\ 16 \notin digital[2]
    /\ 16 \in digital[3]
    /\ 16 \notin dprev.before[3]

\* ---------------------------------------------------------------- C19
\* The bits the calls made so far were meant to write.
TouchedBits ==
    {p[1] : p \in {q \in dtouched : q[2] = "direction"}}
        \cup {p[1] + 16 : p \in {q \in dtouched : q[2] = "value"}}

\* C19: whatever calls were made, every bit other than the value bits of the
\* channels written and the direction bits of the channels given a mode is
\* as the engine handed it over: no other channel changed, and neither did
\* the other field of the same channel.
C19_NoCrossTalk ==
    /\ Len(digital) = Len(dinit)
    /\ \A i \in 1..Len(digital) :
          digital[i] \ TouchedBits = dinit[i] \ TouchedBits

\* Channel 0 was set high and channel 15 made an input from the same frame
\* on: channel 0 reads high, channel 15's direction bit is 1, and channel 0's
\* direction bit and channel 15's value bit are as before.
C19_Witness ==
    /\ dprev.op = "digital_write" /\ dprev.channel = 0 /\ dprev.value
    /\ dlast.op = "pin_mode" /\ dlast.channel = 15 /\ dlast.mode = "Input"
    /\ dprev.frame = 0 /\ dlast.frame = 0
    /\ ~dlast.panicked
    /\ 16 \in digital[1] /\ 16 \notin dinit[1]
    /\ 15 \in digital[1] /\ 15 \notin dinit[1]
    /\ (0 \in digital[1]) <=> (0 \in dinit[1])
    /\ (31 \in digital[1]) <=> (31 \in dinit[1])

\* ---------------------------------------------------------------- C20
\* C20: digital_read(f, c) returns bit c+16 of the word at f and changes no
\* word; when channel c was written at that frame (by a digital_write at or
\* before f, or a digital_write_once at f) it returns the level written last.
C20_ReadReturnsValueBit ==
    (dlast.op = "digital_read" /\ ~dlast.panicked) =>
        /\ dlast.ret <=>
              ((dlast.channel + 16) \in dlast.before[dlast.frame + 1])
        /\ digital = dlast.before
        /\ (dshadow[dlast.frame + 1][dlast.channel] /= "unknown") =>
              (dlast.ret <=>
                  (dshadow[dlast.frame + 1][dlast.channel] = "high"))

\* digital_write(0, c, true) raised the value bit at frame 2, which a
\* digital_read(2, c) then returned.
C20_Witness ==
    /\ dprev.op = "digital_write" /\ dprev.value /\ dprev.frame = 0
    /\ dlast.op = "digital_read" /\ dlast.frame = 2
    /\ dlast.channel = dprev.channel
    /\ ~dlast.panicked
    /\ (dlast.channel + 16) \notin dprev.before[3]
    /\ dlast.ret

\* ---------------------------------------------------------------- C21
\* C21: a view obtained in a render invocation has the length frames x
\* channels of its signal class in the engine's descriptor of that very
\* invocation, also when the descriptor differs from the one of the
\* invocation before; multiplexer_analog_in returns None exactly when the
\* engine's pointer is null.
C21_ViewLengths ==
    (vlast.name /= "none") =>
        LET c == Desc(vscript, vlast.k)
        IN /\ (vlast.name = "audio_out") =>
                 (vlast.some
                    /\ vlast.len = c.audioFrames * c.audioOutChannels)
           /\ (vlast.name = "audio_in") =>
                 (vlast.some
                    /\ vlast.len = c.audioFrames * c.audioInChannels)
           /\ (vlast.name \in {"digital", "digital_mut"}) =>
                 (vlast.some
                    /\ vlast.len = c.digitalFrames * c.digitalChannels)
           /\ (vlast.name = "analog_out") =>
                 (vlast.some
                    /\ vlast.len = c.analogFrames * c.analogOutChannels)
           /\ (vlast.name = "analog_in") =>
                 (vlast.some
                    /\ vlast.len = c.analogFrames * c.analogInChannels)
           /\ (vlast.name = "multiplexer_analog_in") =>
                 /\ vlast.some <=> ~c.multiplexerAnalogInNull
                 /\ vlast.some =>
                       (vlast.len = c.analogFrames * c.multiplexerChannels)

\* In the second invocation of the script that changes the sizes the
\* multiplexer view exists (it did not in the first) and has the length of
\* that invocation.
C21_Witness ==
    /\ vscript = 1
    /\ vlast.k = 1
    /\ vlast.name = "multiplexer_analog_in"
    /\ vlast.some
    /\ vlast.len = 8
    /\ Desc(1, 0).multiplexerAnalogInNull

\* ---------------------------------------------------------------- C22
\* The number of samples of the audio output in invocation j of script s.
AudioOutSamples(s, j) ==
    Desc(s, j).audioFrames * Desc(s, j).audioOutChannels

\* The value the ramp has reached when invocation j of script s begins: the
\* samples of the invocations before it.
RECURSIVE RampStart(_, _)
RampStart(s, j) ==
    IF j = 0 THEN 0 ELSE RampStart(s, j - 1) + AudioOutSamples(s, j - 1)

\* The buffer the ramp application is expected to leave in invocation j: the
\* next stretch of the ramp over the whole audio output of that invocation.
RampExpected(s, j) ==
    [i \in 1..AudioOutSamples(s, j) |-> RampStart(s, j) + i - 1]

\* C22: the output of a sequence of render invocations is determined by the
\* application's state and the engine's descriptor of each invocation.  The
\* application that writes a linear ramp into the audio output view leaves
\* in its j-th invocation exactly the j-th stretch of the ramp, over the
\* frames x channels of that invocation and starting where the invocation
\* before stopped, whatever the earlier descriptors were; so two executions
\* on the same inputs produce the same buffers and end in the same state.
C22_Deterministic ==
    /\ \A r \in Executions :
          /\ \A j \in 1..Len(vruns[r].out) :
                vruns[r].out[j] = RampExpected(vscript, j - 1)
          /\ vruns[r].app = RampStart(vscript, vruns[r].k)
    /\ \A k \in 1..Len(vruns["A"].out) :
          (k <= Len(vruns["B"].out)) =>
              (vruns["A"].out[k] = vruns["B"].out[k])
    /\ (vruns["A"].k = vruns["B"].k) => (vruns["A"].app = vruns["B"].app)

\* Both executions have made three invocations on 2 channels x 4 frames; the
\* third buffer holds the third stretch of the ramp in both.
C22_Witness ==
    /\ vscript = 0
    /\ Len(vruns["A"].out) = 3
    /\ Len(vruns["B"].out) = 3
    /\ vruns["A"].out[1] = <<0, 1, 2, 3, 4, 5, 6, 7>>
    /\ vruns["A"].out[3] = <<16, 17, 18, 19, 20, 21, 22, 23>>
    /\ vruns["B"].out[3] = <<16, 17, 18, 19, 20, 21, 22, 23>>

\* ---------------------------------------------------------------- C23
\* C23: the engine's digital buffer has one word per frame, so a
\* digital_write or a pin_mode that starts at frame f changes only the words
\* f .. digital_frames - 1: no word at an index >= digital_frames changes,
\* whatever the digital channel count.
C23_NoWritePastFrames ==
    (dlast.op \in {"digital_write", "pin_mode"} /\ ~dlast.panicked) =>
        \A i \in 1..Len(digital) :
            (i - 1 < dlast.frame \/ i - 1 >= digitalFrames) =>
                (digital[i] = dlast.before[i])

\* ---------------------------------------------------------------- C24
\* C24: pin_mode and pin_mode_once with Input leave the channel's direction
\* bit at 1 and with Output at 0, in the words they cover; so of two calls on
\* the same frame and channel the last one decides the bit, and a call that
\* repeats the call before it changes no word.
C24_DirectionEncoding ==
    (dlast.op \in {"pin_mode", "pin_mode_once"} /\ ~dlast.panicked) =>
        /\ \A i \in 1..Len(digital) :
              ((dlast.op = "pin_mode" /\ i - 1 >= dlast.frame)
                  \/ (dlast.op = "pin_mode_once" /\ i - 1 = dlast.frame)) =>
                     ((dlast.channel \in digital[i])
                         <=> (dlast.mode = "Input"))
        /\ (dprev.op = dlast.op /\ dprev.frame = dlast.frame
               /\ dprev.channel = dlast.channel /\ dprev.mode = dlast.mode
               /\ ~dprev.panicked) =>
                  (digital = dlast.before)

\* pin_mode(0, 15, Input) then pin_mode(0, 15, Output): the first call set
\* the direction bit, the second cleared it again.
C24_Witness ==
    /\ dprev.op = "pin_mode" /\ dprev.mode = "Input"
    /\ dlast.op = "pin_mode" /\ dlast.mode = "Output"
    /\ dprev.frame = 0 /\ dlast.frame = 0
    /\ dprev.channel = 15 /\ dlast.channel = 15
    /\ ~dlast.panicked
    /\ 15 \notin dprev.before[1]
    /\ 15 \in dlast.before[1]
    /\ 15 \notin digital[1]

\* ---------------------------------------------------------------- C25
\* C25: for every channel argument 0..31 the two bit-fields stay apart: a
\* pin_mode or pin_mode_once changes no bit 16..31 of any word, and a
\* digital_write or digital_write_once changes no bit 0..15 of any word.
C25_FieldsApart ==
    /\ (dlast.op /= "none") => (Len(digital) = Len(dlast.before))
    /\ (dlast.op \in {"pin_mode", "pin_mode_once"}) =>
          \A i \in 1..Len(digital) :
              digital[i] \cap (16..31) = dlast.before[i] \cap (16..31)
    /\ (dlast.op \in {"digital_write", "digital_write_once"}) =>
          \A i \in 1..Len(digital) :
              digital[i] \cap (0..15) = dlast.before[i] \cap (0..15)

\* ---------------------------------------------------------------- C26
\* C26: digital_write and pin_mode with the frame equal to the length of the
\* view return without changing a word; digital_read, digital_write_once and
\* pin_mode_once with a frame at or past the length, and digital_write and
\* pin_mode with a frame past it, panic without changing a word.
C26_FrameLimits ==
    (dlast.op /= "none") =>
        /\ Len(digital) = Len(dlast.before)
        /\ (dlast.op \in {"digital_write", "pin_mode"}
               /\ dlast.frame = Len(dlast.before)) =>
                  (~dlast.panicked /\ digital = dlast.before)
        /\ (dlast.op \in {"digital_write", "pin_mode"}
               /\ dlast.frame > Len(dlast.before)) =>
                  (dlast.panicked /\ digital = dlast.before)
        /\ (dlast.op \in {"digital_read", "digital_write_once",
                          "pin_mode_once"}
               /\ dlast.frame >= Len(dlast.before)) =>
                  (dlast.panicked /\ digital = dlast.before)

\* digital_write(48, 16, true) on a view of 48 words, built with overflow
\* checks: the loop has nothing to go over, the call returns and the words
\* are as before.
C26_Witness ==
    /\ dlast.op = "digital_write"
    /\ dlast.value
    /\ dlast.channel = 16
    /\ overflow_checks = "on"
    /\ Len(dlast.before) = 48
    /\ dlast.frame = 48
    /\ ~dlast.panicked
    /\ digital = dlast.before

\* ---------------------------------------------------------------- C27
\* C27: a callable passed to create_auxiliary_task stays leaked: it is
\* leaked after the call whether the call returned Ok or Err(CreateTask),
\* and it is still leaked when the AuxiliaryTask handle has been dropped.
C27_CallableLeaked ==
    /\ \A t \in 1..Len(tasks) : tasks[t].leaked
    /\ (api.kind = "create_auxiliary_task") =>
          /\ api.ret \in {"Ok", "ErrCreateTask"}
          /\ api.task \in 1..Len(tasks)
          /\ tasks[api.task].leaked

\* The engine returned a null handle: the call returned Err(CreateTask),
\* nothing is registered and no handle exists, and the callable is leaked.
C27_Witness ==
    /\ api.kind = "create_auxiliary_task"
    /\ api.null
    /\ api.ret = "ErrCreateTask"
    /\ ~tasks[api.task].registered
    /\ ~tasks[api.task].held
    /\ tasks[api.task].leaked

\* ---------------------------------------------------------------- C28
\* C28: the UserData the engine's pointer refers to lives in run's frame, and
\* every setup, render and cleanup invocation happens while run has not
\* returned, on the Ok, the Err(Init) and the Err(Start) path alike: no
\* callback is invoked, and none is in flight, once run has returned.
C28_CallbacksWithinRun ==
    [][/\ (setupCalls' /= setupCalls \/ renderCalls' /= renderCalls
              \/ cleanupCalls' /= cleanupCalls) => (pc /= "done")
       /\ rendering' => (pc' /= "done")]_vars

\* ---------------------------------------------------------------- C29
\* C29: get_midi_message returns None exactly when the engine reports no
\* available message (count <= 0); otherwise it returns the first len bytes
\* of the caller's buffer, len being the value Midi_getMessage returned; and
\* whatever that value is, the slice has at most 3 bytes and the call does
\* not panic.
C29_MidiTotal ==
    (mcalls > 0) =>
        /\ ~mlast.panicked
        /\ mlast.some <=> (mlast.avail > 0)
        /\ mlast.called <=> (mlast.avail > 0)
        /\ mlast.some =>
              /\ Len(mlast.slice) <= 3
              /\ Len(mlast.slice) = mlast.ret
              /\ mlast.slice = SubSeq(mbuf, 1, mlast.ret)

====
